---- MODULE Spec2Model ----
(***************************************************************************)
(* Repyable: a reliable-datagram endpoint over UDP                         *)
(* (src/repyable/endpoint.py).  Two ReliableEndpoint objects, "A" and "B", *)
(* are connected back to back: what one sends with send_packet is what the *)
(* receive loop of the other may read from its socket (UDP may lose,       *)
(* reorder and duplicate datagrams).                                       *)
(*                                                                         *)
(* Bytes are numbers 0..255, a bytes object is a sequence of them, and the *)
(* struct formats are modelled big-endian byte by byte.  time.time() is an *)
(* integer clock; rtt is the exact rational <<n, k>> = n / 10^k, and the    *)
(* smoothing factor is given in tenths (the default 0.1 is 1).             *)
(***************************************************************************)
EXTENDS Integers, Sequences, FiniteSets, TLC

VARIABLES
    cfg,                \* the constructor arguments (both endpoints)
    sequence,           \* self.sequence
    acks,               \* self.acks
    sent_packets,       \* self.sent_packets
    received_packets,   \* self.received_packets
    fragments,          \* self.fragments
    rtt,                \* self.rtt
    running,            \* self.running
    loops,              \* number of live _receive_loop threads
    receive_thread,     \* self.receive_thread: "None", or the thread's state
    joining,            \* a stop() call is blocked in receive_thread.join()
    last_update_time,   \* self.last_update_time
    now,                \* time.time()
    sends,              \* history: one entry per send_packet call
    calls,              \* history: one entry per process_packet_callback call
    samples,            \* history: one entry per _update_stats call
    delivered,          \* history: the datagrams _process_received_data got
    sequence0,          \* history: self.sequence in the initial state
    born,               \* history: when each entry of self.fragments was created
    foreign,            \* datagrams on their way to the socket from other hosts
    sending,            \* the frame of a send_packet call that runs step by step
    \* the network simulator of the tests (src/tests/util/real_world_socket.py)
    settings,           \* _packet_loss_rate, _base_latency, _jitter of a socket
    queue,              \* PacketSender._queue: the inbound queue of the worker
    heap,               \* PacketSender._heap
    empty_send_queue,   \* PacketSender.empty_send_queue (an event)
    stop_event,         \* PacketSender._stop_event
    stop_check_counter, \* the local stop_check_counter of user_target
    worker,             \* the worker process: "new", "alive" or "exited"
    wpc,                \* where the worker is in its loop: "top" or "pop"
    monotonic,          \* time.monotonic()
    wire,               \* history: what the underlying socket was given to send
    outcalls,           \* history: one entry per send / sendto call
    iterations,         \* history: the drain and the flag of the latest loop iteration
    stopped_at,         \* history: stop_check_counter when stop() set the event
    scope,              \* the get_real_world_sockets context manager
    \* a SafeProcess object and its child (src/repyable/safe_process.py)
    p_state,            \* "none" (not constructed), "new", "alive" or "exited"
    p_use_stop_event,   \* the class attribute use_stop_event
    p_target,           \* what the target (or user_target) does
    p_stop_event,       \* self._stop_event is set
    exception_conn,     \* the objects in the exception pipe
    result_conn,        \* the objects in the result pipe
    p_exception,        \* self._exception in the parent
    p_result,           \* self._result in the parent
    p_log,              \* history: the parent's calls and what they returned
    \* a CircularBuffer (src/repyable/circular_buffer.py)
    cb,                 \* the object: size, buffer, head, tail, count
    cb_log,             \* history: the calls push and pop and what pop returned
    \* a Packet of the bit-level codec (src/repyable/packet.py)
    pk,                 \* the packet created, its bits and the result of from_bits
    \* a thread in RealWorldUDPSocket.ensure_empty_send_queue, per socket
    ensure              \* its position, empty_count and the calls made before

vars == <<cfg, sequence, acks, sent_packets, received_packets, fragments, rtt,
          running, loops, receive_thread, joining, last_update_time, now, sends,
          calls, samples, delivered, sequence0, born, foreign, sending,
          settings, queue, heap, empty_send_queue, stop_event,
          stop_check_counter, worker, wpc, monotonic, wire, outcalls,
          iterations, stopped_at, scope, p_state, p_use_stop_event, p_target,
          p_stop_event, exception_conn, result_conn, p_exception, p_result,
          p_log, cb, cb_log, pk, ensure>>

\* the state of the endpoints
endpointVars ==
    <<cfg, sequence, acks, sent_packets, received_packets, fragments, rtt,
      running, loops, receive_thread, joining, last_update_time, now, sends,
      calls, samples, delivered, sequence0, born, foreign, sending>>

\* the state of the simulator sockets
simVars ==
    <<settings, queue, heap, empty_send_queue, stop_event, stop_check_counter,
      worker, wpc, monotonic, wire, outcalls, iterations, stopped_at, scope>>

\* the state of the other objects of the library
libVars ==
    <<p_state, p_use_stop_event, p_target, p_stop_event, exception_conn,
      result_conn, p_exception, p_result, p_log, cb, cb_log, pk, ensure>>

Endpoints == {"A", "B"}

Peer(e) == IF e = "A" THEN "B" ELSE "A"

----------------------------------------------------------------------------
(* Bounds of the model *)

MaxSend == 1        \* Spec: send_packet calls of endpoint A
MaxRecv == 2        \* Spec: datagrams processed by endpoint A
MaxPeerSend == 2    \* Spec: send_packet calls of endpoint B
MaxPeerRecv == 1    \* Spec: datagrams processed by endpoint B
MaxTime == 1        \* Spec: clock ticks
MaxLoops == 1       \* live receive loops per endpoint

----------------------------------------------------------------------------
(* Program constants *)

MAX_ACK_BITS == 32

SEQUENCE_MODULO == 65536

UBYTE_MAX == 255    \* struct format "B"

HEADER_SIZE == 8    \* struct format "!HHI"

FRAGMENT_HEADER_SIZE == 2    \* struct format "!BB"

----------------------------------------------------------------------------
(* Sequences of bytes *)

Min(a, b) == IF a < b THEN a ELSE b

Slice(s, lo, hi) == [i \in 1..(IF hi > lo THEN hi - lo ELSE 0) |-> s[lo + i]]
    \* Python s[lo:hi] for 0 <= lo, hi clipped to len(s) by the caller

Drop(s, n) == Slice(s, Min(n, Len(s)), Len(s))      \* s[n:]

Take(s, n) == Slice(s, 0, Min(n, Len(s)))           \* s[:n]

Rep(b, n) == [i \in 1..n |-> b]                     \* bytes([b]) * n

RECURSIVE Pow2(_)
Pow2(n) == IF n = 0 THEN 1 ELSE 2 * Pow2(n - 1)

RECURSIVE Pow10(_)
Pow10(n) == IF n = 0 THEN 1 ELSE 10 * Pow10(n - 1)

RECURSIVE SumPow2(_)
SumPow2(S) == IF S = {} THEN 0
              ELSE LET d == CHOOSE x \in S : TRUE IN Pow2(d) + SumPow2(S \ {d})

\* struct.pack("!H", v) and struct.unpack("!H", b)
PackH(v) == <<v \div 256, v % 256>>

UnpackH(b) == b[1] * 256 + b[2]

\* A 32-bit ack_bits value is held as the set of its set bits (bit i of the
\* value is i \in bits).  struct.pack("!I", ack_bits): byte 1 holds bits 31..24
PackI(bits) ==
    [j \in 1..4 |-> SumPow2({ i - 8 * (4 - j) : i \in { b \in bits : b \div 8 = 4 - j } })]

\* struct.unpack("!I", b)
UnpackI(b) == { i \in 0..31 : (b[4 - (i \div 8)] \div Pow2(i % 8)) % 2 = 1 }

\* ack_bits & (1 << i)
BitSet(bits, i) == i \in bits

----------------------------------------------------------------------------
(* Packet (NamedTuple) and the empty slot None *)

Packet(seq, data, t) ==
    [present |-> TRUE, sequence |-> seq, data |-> data, send_time |-> t]

NoPacket == [present |-> FALSE, sequence |-> 0, data |-> <<>>, send_time |-> 0]

\* one entry of a list[bytes | None] of self.fragments
Part(bytes) == [present |-> TRUE, bytes |-> bytes]

NoPart == [present |-> FALSE, bytes |-> <<>>]

----------------------------------------------------------------------------
\* a counter that wraps one early
NextSequenceBug(seq) == (seq + 1) % (SEQUENCE_MODULO - 1)

\* _next_sequence: self.sequence after the call (the call returns the old one)
NextSequence(seq) == (seq + 1) % SEQUENCE_MODULO

\* _get_ack_data: (ack, ack_bits) from the list self.acks

AckBits(history) ==
    LET ack == history[Len(history)]
        n == Min(Len(history), MAX_ACK_BITS)     \* the loop breaks at i >= 32
        near == { i \in 0..(n - 1) :
                    (ack - history[Len(history) - i]) % SEQUENCE_MODULO < MAX_ACK_BITS }
    IN  { (ack - history[Len(history) - i]) % MAX_ACK_BITS : i \in near }

GetAckData(history) ==
    IF Len(history) = 0 THEN <<0, {}>>
    ELSE <<history[Len(history)], AckBits(history)>>

----------------------------------------------------------------------------
(* The send path *)

\* "!HHI": sequence, ack, ack_bits
Header(seq, history) ==
    PackH(seq) \o PackH(GetAckData(history)[1]) \o PackI(GetAckData(history)[2])

\* [data[i : i + fragment_size] for i in range(0, len(data), fragment_size)]
FragmentCount(data, fragment_size) ==
    (Len(data) + fragment_size - 1) \div fragment_size

\* a split that loses the short last fragment
SplitFragmentsBug(data, fragment_size) ==
    [i \in 1..(Len(data) \div fragment_size) |->
        Slice(data, (i - 1) * fragment_size, i * fragment_size)]

SplitFragments(data, fragment_size) ==
    [i \in 1..FragmentCount(data, fragment_size) |->
        Slice(data, (i - 1) * fragment_size, Min(i * fragment_size, Len(data)))]

\* send_packet chooses _send_fragmented by len(data) > max_packet_size
IsFragmentedSend(data, c) == Len(data) > c.max_packet_size

\* struct.pack("!HHIBB", ..., i, len(fragments)) raises struct.error when
\* len(fragments) does not fit an unsigned byte (already for i = 0)
PackRaises(data, c) ==
    IsFragmentedSend(data, c) /\ FragmentCount(data, c.fragment_size) > UBYTE_MAX

\* the datagrams handed to sock.sendto, in order
Datagrams(seq, history, data, c) ==
    IF ~IsFragmentedSend(data, c) THEN << Header(seq, history) \o data >>
    ELSE IF PackRaises(data, c) THEN << >>
    ELSE LET parts == SplitFragments(data, c.fragment_size)
         IN  [i \in 1..Len(parts) |->
                Header(seq, history) \o <<i - 1, Len(parts)>> \o parts[i]]

\* a write to the neighbouring slot
InsertBug(window, seq, data, t) ==
    [window EXCEPT ![((seq + 1) % Len(window)) + 1] = Packet(seq, data, t)]

\* self.sent_packets[sequence % self.sent_packets_buffer_size] = Packet(...)
\* and the same statement for self.received_packets
Insert(window, seq, data, t) ==
    [window EXCEPT ![(seq % Len(window)) + 1] = Packet(seq, data, t)]

\* send_packet(data) on endpoint e
SendPacket(e, data) ==
    LET seq == sequence[e]
        out == Datagrams(seq, acks[e], data, cfg)
        raised == PackRaises(data, cfg)
    IN  /\ sequence' = [sequence EXCEPT ![e] = NextSequence(seq)]
        /\ sent_packets' =
             [sent_packets EXCEPT ![e] =
                IF raised THEN @ ELSE Insert(@, seq, data, now)]
        /\ sends' = [sends EXCEPT ![e] =
                Append(@, [data |-> data, sequence |-> seq,
                           datagrams |-> out, raised |-> raised])]
        /\ UNCHANGED <<libVars, simVars, sending, cfg, acks, received_packets, fragments, rtt, running,
                       loops, receive_thread, joining, last_update_time, now,
                       calls, samples, delivered, sequence0, born, foreign>>

\* no send_packet call is in progress
NotSending ==
    [pc |-> "idle", data |-> <<>>, sequence |-> 0, ack |-> 0, ack_bits |-> {},
     i |-> 0, index |-> 0]

\* _send_single after _get_ack_data returned (ack, ack_bits): the header is
\* packed and the datagram goes to sock.sendto.  The record is stored by the
\* next statement (SendSingleStore); the receive thread may run in between.
SendSingleEnd(e, seq, data, ack, ack_bits) ==
    /\ sends' = [sends EXCEPT ![e] =
            Append(@, [data |-> data, sequence |-> seq,
                       datagrams |-> << PackH(seq) \o PackH(ack) \o PackI(ack_bits)
                                        \o data >>,
                       raised |-> FALSE])]
    /\ sending' = [sending EXCEPT ![e] =
            [NotSending EXCEPT !.pc = "sent", !.data = data, !.sequence = seq]]
    /\ UNCHANGED sent_packets

\* send_packet(data) for a payload that takes _send_single, up to the first
\* statements of _get_ack_data: _next_sequence(), then "if not self.acks:
\* return 0, 0" or "ack = self.acks[-1]".  The receive thread may run between
\* this step and the next ones.
SendSingleBegin(e, data) ==
    /\ sending[e].pc = "idle"
    /\ ~IsFragmentedSend(data, cfg)
    /\ sequence' = [sequence EXCEPT ![e] = NextSequence(@)]
    /\ IF Len(acks[e]) = 0
       THEN SendSingleEnd(e, sequence[e], data, 0, {})
       ELSE /\ sending' = [sending EXCEPT ![e] =
                   [pc |-> "ack", data |-> data, sequence |-> sequence[e],
                    ack |-> acks[e][Len(acks[e])], ack_bits |-> {},
                    i |-> 0, index |-> 0]]
            /\ UNCHANGED <<sent_packets, sends>>
    /\ UNCHANGED <<libVars, simVars, cfg, acks, received_packets, fragments, rtt, running,
                   loops, receive_thread, joining, last_update_time, now,
                   calls, samples, delivered, sequence0, born, foreign>>

\* _get_ack_data: reversed(self.acks) creates the iterator, which starts at
\* the last element the list has at this moment (index counts from 1 here)
GetAckIter(e) ==
    /\ sending[e].pc = "ack"
    /\ sending' = [sending EXCEPT ![e].pc = "scan", ![e].index = Len(acks[e])]
    /\ UNCHANGED <<libVars, simVars, cfg, sequence, acks, sent_packets, received_packets, fragments,
                   rtt, running, loops, receive_thread, joining, last_update_time,
                   now, sends, calls, samples, delivered, sequence0, born, foreign>>

\* _get_ack_data: one turn of "for i, seq in enumerate(reversed(self.acks))".
\* The iterator yields the element at its index if the list still has one
\* there, and is exhausted otherwise; the loop also ends at i >= MAX_ACK_BITS.
\* When the loop ends the call returns and _send_single completes.
GetAckNext(e) ==
    LET f == sending[e]
        more == f.index >= 1 /\ f.index <= Len(acks[e]) /\ f.i < MAX_ACK_BITS
        seq == acks[e][f.index]
    IN  /\ f.pc = "scan"
        /\ IF more
           THEN /\ sending' = [sending EXCEPT
                       ![e].ack_bits =
                           IF (f.ack - seq) % SEQUENCE_MODULO < MAX_ACK_BITS
                           THEN @ \cup {(f.ack - seq) % MAX_ACK_BITS} ELSE @,
                       ![e].i = @ + 1,
                       ![e].index = @ - 1]
                /\ UNCHANGED <<sent_packets, sends>>
           ELSE SendSingleEnd(e, f.sequence, f.data, f.ack, f.ack_bits)
        /\ UNCHANGED <<libVars, simVars, cfg, sequence, acks, received_packets, fragments, rtt,
                       running, loops, receive_thread, joining, last_update_time,
                       now, calls, samples, delivered, sequence0, born, foreign>>

\* _send_single after sock.sendto returned: the last statement,
\* self.sent_packets[sequence % size] = Packet(sequence, data, time.time())
SendSingleStore(e) ==
    LET f == sending[e]
    IN  /\ f.pc = "sent"
        /\ sent_packets' = [sent_packets EXCEPT ![e] = Insert(@, f.sequence, f.data, now)]
        /\ sending' = [sending EXCEPT ![e] = NotSending]
        /\ UNCHANGED <<libVars, simVars, cfg, sequence, acks, received_packets, fragments, rtt,
                       running, loops, receive_thread, joining, last_update_time,
                       now, sends, calls, samples, delivered, sequence0, born, foreign>>

\* the datagrams that may arrive at e's socket: all that the peer sent, and
\* those of other hosts
Net(e) == UNION { { s.datagrams[i] : i \in 1..Len(s.datagrams) } :
                  s \in { sends[Peer(e)][k] : k \in 1..Len(sends[Peer(e)]) } }
          \cup foreign[e]

----------------------------------------------------------------------------
(* The receive path *)

\* all(self.fragments[sequence]): None and b"" are both falsy
AllParts(parts) ==
    \A i \in 1..Len(parts) : parts[i].present /\ Len(parts[i].bytes) > 0

\* b"".join(fragment for fragment in parts if fragment is not None), from
\* part i on
RECURSIVE JoinFrom(_, _)
JoinFrom(parts, i) ==
    IF i > Len(parts) THEN <<>>
    ELSE (IF parts[i].present THEN parts[i].bytes ELSE <<>>) \o JoinFrom(parts, i + 1)

Join(parts) == JoinFrom(parts, 1)

\* _process_fragment up to the call of _process_packet: the new fragments
\* table, whether an exception left the method, and the completed payload
ProcessFragment(frs, seq, rest) ==
    IF Len(rest) < FRAGMENT_HEADER_SIZE
    THEN [fragments |-> frs, raised |-> TRUE, complete |-> FALSE, data |-> <<>>]
    ELSE
    LET fragment_id == rest[1]
        total_fragments == rest[2]
        fragment_data == Drop(rest, FRAGMENT_HEADER_SIZE)
        frs1 == IF seq \in DOMAIN frs THEN frs
                ELSE frs @@ (seq :> [i \in 1..total_fragments |-> NoPart])
    IN  IF fragment_id >= Len(frs1[seq])
        THEN [fragments |-> frs1, raised |-> TRUE, complete |-> FALSE, data |-> <<>>]
        ELSE
        LET frs2 == [frs1 EXCEPT ![seq][fragment_id + 1] = Part(fragment_data)]
        IN  IF AllParts(frs2[seq])
            THEN [fragments |-> [k \in DOMAIN frs2 \ {seq} |-> frs2[k]],
                  raised |-> FALSE, complete |-> TRUE, data |-> Join(frs2[seq])]
            ELSE [fragments |-> frs2, raised |-> FALSE, complete |-> FALSE,
                  data |-> <<>>]

\* an eviction that starts one entry early
AppendAckBug(history, seq, size) ==
    IF Len(history) + 1 >= size THEN Tail(Append(history, seq))
    ELSE Append(history, seq)

\* _process_packet after the callback returned true: the ack history
AppendAck(history, seq, size) ==
    IF Len(history) + 1 > size THEN Tail(Append(history, seq))
    ELSE Append(history, seq)

\* a lookup that does not compare the stored sequence
LookupBug(window, acked_sequence) ==
    window[(acked_sequence % Len(window)) + 1]

\* the sent record that _process_acks looks up for an acked sequence
Lookup(window, acked_sequence) ==
    LET sent_packet == window[(acked_sequence % Len(window)) + 1]
    IN  IF sent_packet.present /\ sent_packet.sequence = acked_sequence
        THEN sent_packet ELSE NoPacket

\* the records _process_acks passes to _update_stats, for i = from..31 in order
RECURSIVE AckedPackets(_, _, _, _)
AckedPackets(window, ack, ack_bits, from) ==
    IF from >= 32 THEN <<>>
    ELSE LET p == Lookup(window, (ack - from) % 65536)
             rest == AckedPackets(window, ack, ack_bits, from + 1)
         IN  IF BitSet(ack_bits, from) /\ p.present THEN <<p>> \o rest ELSE rest

\* rtt as n / 10^k, in lowest terms of 10
RECURSIVE Normal(_)
Normal(r) == IF r[2] > 0 /\ r[1] % 10 = 0 THEN Normal(<<r[1] \div 10, r[2] - 1>>) ELSE r

\* the weights of the old value and of the sample exchanged
UpdateStatsBug(r, sample, a) ==
    Normal(<<a * r[1] + (10 - a) * sample * Pow10(r[2]), r[2] + 1>>)

\* _update_stats: self.rtt * (1 - self.rtt_smoothing_factor)
\*                + rtt * self.rtt_smoothing_factor, the factor being a / 10
UpdateStats(r, sample, a) ==
    Normal(<<(10 - a) * r[1] + a * sample * Pow10(r[2]), r[2] + 1>>)

RECURSIVE UpdateAll(_, _, _, _)
UpdateAll(r, packets, t, a) ==
    IF Len(packets) = 0 THEN r
    ELSE UpdateAll(UpdateStats(r, t - Head(packets).send_time, a), Tail(packets), t, a)

\* one of e's _receive_loop threads ends: the one self.receive_thread refers
\* to (own), or an older one that start() has replaced there
ExitLoop(e) ==
    \E own \in BOOLEAN :
        /\ IF own THEN receive_thread[e] = "alive"
           ELSE loops[e] > (IF receive_thread[e] = "alive" THEN 1 ELSE 0)
        /\ loops' = [loops EXCEPT ![e] = @ - 1]
        /\ receive_thread' = [receive_thread EXCEPT ![e] = IF own THEN "done" ELSE @]

\* one iteration of _receive_loop on endpoint e by a thread that waits in
\* recvfrom, from the return of recvfrom on: recvfrom has returned the bytes
\* d, _process_received_data(d) runs, the callback (if called) returns ret,
\* and "while self.running" is evaluated
ReceiveData(e, d, ret) ==
    /\ loops[e] > 0
    /\ delivered' = [delivered EXCEPT ![e] = Append(@, d)]
    /\ IF Len(d) < HEADER_SIZE
       THEN \* struct.unpack("!HHI", data[:8]) raises: the thread ends
            /\ ExitLoop(e)
            /\ UNCHANGED <<acks, received_packets, fragments, rtt, calls, samples,
                           born>>
       ELSE
       LET seq == UnpackH(Slice(d, 0, 2))
           ack == UnpackH(Slice(d, 2, 4))
           ack_bits == UnpackI(Slice(d, 4, 8))
           payload == Drop(d, HEADER_SIZE)
           isfrag == Len(payload) > cfg.fragment_above
           fr == ProcessFragment(fragments[e], seq, payload)
           raised == isfrag /\ fr.raised
           called == IF isfrag THEN fr.complete ELSE TRUE
           data == IF isfrag THEN fr.data ELSE payload
           acked == AckedPackets(sent_packets[e], ack, ack_bits, 0)
           table == IF isfrag THEN fr.fragments ELSE fragments[e]
       IN  /\ fragments' = [fragments EXCEPT ![e] = table]
           /\ born' = [born EXCEPT ![e] =
                  [s \in DOMAIN table |->
                      IF s \in DOMAIN fragments[e] THEN @[s] ELSE now]]
           /\ calls' = [calls EXCEPT ![e] =
                  IF called THEN Append(@, [sequence |-> seq, data |-> data, ret |-> ret])
                  ELSE @]
           /\ received_packets' = [received_packets EXCEPT ![e] =
                  IF called /\ ret THEN Insert(@, seq, data, now) ELSE @]
           /\ acks' = [acks EXCEPT ![e] =
                  IF called /\ ret THEN AppendAck(@, seq, cfg.ack_buffer_size) ELSE @]
           /\ IF raised \/ ~running[e] THEN ExitLoop(e)
              ELSE UNCHANGED <<loops, receive_thread>>
           /\ rtt' = [rtt EXCEPT ![e] = IF raised THEN @
                  ELSE UpdateAll(@, acked, now, cfg.rtt_smoothing_factor)]
           /\ samples' = [samples EXCEPT ![e] =
                  IF raised THEN @
                  ELSE @ \o [i \in 1..Len(acked) |->
                               [sequence |-> acked[i].sequence,
                                sample |-> now - acked[i].send_time]]]
    /\ UNCHANGED <<libVars, simVars, sending, cfg, sequence, sent_packets, running, joining,
                   last_update_time, now, sends, sequence0, foreign>>

\* an iteration in which recvfrom returns the datagram d whole
ReceiveLoop(e, d, ret) ==
    /\ d \in Net(e)
    /\ ReceiveData(e, d, ret)

\* sock.recvfrom(bufsize) for the datagram d: a UDP socket returns the first
\* bufsize bytes of a longer datagram and discards the rest
Recvfrom(d, bufsize) == Take(d, bufsize)

\* an iteration in which recvfrom(self.max_packet_size) returns the datagram
\* d or, if d is longer than the buffer, its beginning
ReceiveLoopRecvfrom(e, d, ret) ==
    /\ d \in Net(e)
    /\ ReceiveData(e, Recvfrom(d, cfg.max_packet_size), ret)

\* one iteration of _receive_loop in which recvfrom raises TimeoutError: the
\* handler passes, and the thread ends if "while self.running" is now false
\* (if it is true, nothing changes)
ReadTimeout(e) ==
    /\ loops[e] > 0
    /\ ~running[e]
    /\ ExitLoop(e)
    /\ UNCHANGED <<libVars, simVars, sending, cfg, sequence, acks, sent_packets, received_packets, fragments,
                   rtt, running, joining, last_update_time, now, sends, calls,
                   samples, delivered, sequence0, born, foreign>>

\* start(): a new thread, which self.receive_thread now refers to
Start(e) ==
    /\ running' = [running EXCEPT ![e] = TRUE]
    /\ loops' = [loops EXCEPT ![e] = @ + 1]
    /\ receive_thread' = [receive_thread EXCEPT ![e] = "alive"]
    /\ UNCHANGED <<libVars, simVars, sending, cfg, sequence, acks, sent_packets, received_packets, fragments,
                   rtt, joining, last_update_time, now, sends, calls, samples,
                   delivered, sequence0, born, foreign>>

\* stop() up to the join: self.running = False; the call returns at once if
\* self.receive_thread is None or has ended, and waits in join() otherwise
Stop(e) ==
    /\ running' = [running EXCEPT ![e] = FALSE]
    /\ joining' = [joining EXCEPT ![e] = receive_thread[e] = "alive"]
    /\ UNCHANGED <<libVars, simVars, sending, cfg, sequence, acks, sent_packets, received_packets, fragments,
                   rtt, loops, receive_thread, last_update_time, now, sends,
                   calls, samples, delivered, sequence0, born, foreign>>

\* stop() returns from self.receive_thread.join(): that thread has ended
JoinReturns(e) ==
    /\ joining[e]
    /\ receive_thread[e] = "done"
    /\ joining' = [joining EXCEPT ![e] = FALSE]
    /\ UNCHANGED <<libVars, simVars, sending, cfg, sequence, acks, sent_packets, received_packets, fragments,
                   rtt, running, loops, receive_thread, last_update_time, now,
                   sends, calls, samples, delivered, sequence0, born, foreign>>

\* update()
Update(e) ==
    /\ last_update_time' = [last_update_time EXCEPT ![e] = now]
    /\ UNCHANGED <<libVars, simVars, sending, cfg, sequence, acks, sent_packets, received_packets, fragments,
                   rtt, running, loops, receive_thread, joining, now, sends,
                   calls, samples, delivered, sequence0, born, foreign>>

\* the clock advances
Tick ==
    /\ now' = now + 1
    /\ UNCHANGED <<libVars, simVars, sending, cfg, sequence, acks, sent_packets, received_packets, fragments,
                   rtt, running, loops, receive_thread, joining, last_update_time,
                   sends, calls, samples, delivered, sequence0, born, foreign>>

----------------------------------------------------------------------------
(* The network simulator of the tests: RealWorldUDPSocket and its sender     *)
(* worker (src/tests/util/real_world_socket.py, src/repyable/parallel.py).   *)
(* time.monotonic() is an integer clock in units of 0.5 ms.  random.random() *)
(* returns k / DrawDen for a k in 0..DrawDen-1, so 0.0 is possible and 1.0   *)
(* is not; a loss rate is given in the same units (DrawDen is 1.0).          *)

\* get_real_world_sockets("client", "server")
Sockets == {"client", "server"}

\* the order of the dict of sockets
SocketOrder == <<"client", "server">>

MIN_LATENCY == 3            \* 0.0015 s

STOP_CHECK_PERIOD == 100    \* stop_check_counter % 100

MAX_MESSAGES == 1000        \* max_messages_to_get

DrawDen == 4                \* the values of random.random() are k / DrawDen

Draws == 0..(DrawDen - 1)

\* RealWorldUDPSocket.__init__: no loss, no latency, no jitter
DefaultSettings == [packet_loss_rate |-> 0, base_latency |-> 0, jitter |-> 0]

\* send(): "if not random.random() <= self._packet_loss_rate: return len(data)"
SendDrops(u, st) == ~(u <= st.packet_loss_rate)

\* sendto(): "if random.random() <= self._packet_loss_rate: return len(data)"
SendtoDrops(u, st) == u <= st.packet_loss_rate

\* random.random() * self._jitter, for the draw k / DrawDen
JitterSample(k, st) == (k * st.jitter) \div DrawDen

\* a latency without its jitter
SimulateLatencyBug(k, st) == st.base_latency

\* _simulate_latency
SimulateLatency(k, st) == st.base_latency + JitterSample(k, st)

\* PacketSendTask
PacketSendTask(method, scheduled_time, data) ==
    [method |-> method, scheduled_time |-> scheduled_time, data |-> data]

\* what the underlying socket is given: by the calling thread ("caller"), or
\* by the worker in _execute, for an item just taken from the queue ("drain")
\* or popped from the heap ("heap")
Transmission(method, data, t, by, scheduled_time) ==
    [method |-> method, data |-> data, time |-> t, by |-> by,
     scheduled_time |-> scheduled_time]

\* the part send() and sendto() have in common after the loss decision:
\* transmit at once below MIN_LATENCY, submit a task to the worker otherwise,
\* and return len(data)
Outbound(s, method, data, u, k, delay, dropped) ==
    LET st == settings[s]
        latency == SimulateLatency(k, st) + delay
    IN  /\ outcalls' = [outcalls EXCEPT ![s] =
               Append(@, [method |-> method, data |-> data, u |-> u,
                          sample |-> IF dropped THEN 0 ELSE JitterSample(k, st),
                          delay |-> delay, time |-> monotonic,
                          settings |-> st, returned |-> Len(data)])]
        /\ IF dropped THEN UNCHANGED <<wire, queue>>
           ELSE IF latency < MIN_LATENCY
           THEN /\ wire' = [wire EXCEPT ![s] =
                       Append(@, Transmission(method, data, monotonic, "caller",
                                              monotonic))]
                /\ UNCHANGED queue
           ELSE /\ queue' = [queue EXCEPT ![s] =
                       Append(@, PacketSendTask(method, monotonic + latency, data))]
                /\ UNCHANGED wire
        /\ UNCHANGED <<settings, heap, empty_send_queue, stop_event,
                       stop_check_counter, worker, wpc, monotonic, iterations,
                       stopped_at, scope>>
        /\ UNCHANGED <<endpointVars, libVars>>

\* send(data) on socket s; u and k are the values that random.random()
\* returns (k is not drawn when the datagram is dropped)
Send(s, data, u, k) ==
    /\ SendDrops(u, settings[s]) => k = 0
    /\ Outbound(s, "send", data, u, k, 0, SendDrops(u, settings[s]))

\* sendto(data, address, delay) on socket s
Sendto(s, data, u, k, delay) ==
    /\ SendtoDrops(u, settings[s]) => k = 0
    /\ Outbound(s, "sendto", data, u, k, delay, SendtoDrops(u, settings[s]))

\* the setters of packet_loss_rate, base_latency and jitter
Configure(s, st) ==
    /\ st.packet_loss_rate \in 0..DrawDen
    /\ st.base_latency >= 0
    /\ st.jitter >= 0
    /\ settings' = [settings EXCEPT ![s] = st]
    /\ UNCHANGED <<queue, heap, empty_send_queue, stop_event, stop_check_counter,
                   worker, wpc, monotonic, wire, outcalls, iterations,
                   stopped_at, scope>>
    /\ UNCHANGED <<endpointVars, libVars>>

\* a test that lets a task go one tick early
DueBug(task, t) == task.scheduled_time <= t + 1

\* "item.scheduled_time <= time.monotonic()"
Due(task, t) == task.scheduled_time <= t

\* _process_queue, the loop over the items: a due item is executed at once,
\* the others are pushed on the heap
RECURSIVE ProcessQueue(_, _, _, _)
ProcessQueue(items, h, w, t) ==
    IF Len(items) = 0 THEN [heap |-> h, wire |-> w]
    ELSE LET item == Head(items)
         IN  IF Due(item, t)
             THEN ProcessQueue(Tail(items), h,
                      Append(w, Transmission(item.method, item.data, t, "drain",
                                             item.scheduled_time)), t)
             ELSE ProcessQueue(Tail(items), h \cup {item}, w, t)

\* the orders in which heappop returns the tasks D: by scheduled_time (tasks
\* compare by scheduled_time only; equal ones come in either order)
PopOrders(D) ==
    { q \in [1..Cardinality(D) -> D] :
        \A i, j \in 1..Cardinality(D) :
            i < j => q[i] # q[j] /\ q[i].scheduled_time <= q[j].scheduled_time }

\* a test on every 101st iteration
StopSeenBug(counter, event) == counter % (STOP_CHECK_PERIOD + 1) = 0 /\ event

\* "stop_check_counter % 100 == 0 and self._stop_event.is_set()"
StopSeen(counter, event) == counter % STOP_CHECK_PERIOD = 0 /\ event

\* start_sender(): the worker process starts and enters user_target
StartSender(s) ==
    /\ worker[s] = "new"
    /\ worker' = [worker EXCEPT ![s] = "alive"]
    /\ UNCHANGED <<settings, queue, heap, empty_send_queue, stop_event,
                   stop_check_counter, wpc, monotonic, wire, outcalls,
                   iterations, stopped_at, scope>>
    /\ UNCHANGED <<endpointVars, libVars>>

\* a loop that tests the stop event after _process_queue
WorkerDrainBug(s) ==
    LET counter == stop_check_counter[s] + 1
        items == Take(queue[s], MAX_MESSAGES)
        r == ProcessQueue(items, heap[s], wire[s], monotonic)
    IN  /\ worker[s] = "alive"
        /\ wpc[s] = "top"
        /\ stop_check_counter' = [stop_check_counter EXCEPT ![s] = counter]
        /\ IF StopSeen(counter, stop_event[s])
           THEN /\ worker' = [worker EXCEPT ![s] = "exited"]
                /\ queue' = [queue EXCEPT ![s] = Drop(@, Len(items))]
                /\ heap' = [heap EXCEPT ![s] = r.heap]
                /\ wire' = [wire EXCEPT ![s] = r.wire]
                /\ UNCHANGED <<empty_send_queue, wpc, iterations>>
           ELSE /\ queue' = [queue EXCEPT ![s] = Drop(@, Len(items))]
                /\ heap' = [heap EXCEPT ![s] = r.heap]
                /\ wire' = [wire EXCEPT ![s] = r.wire]
                /\ empty_send_queue' = [empty_send_queue EXCEPT ![s] =
                       IF Len(items) > 0 THEN FALSE ELSE @]
                /\ wpc' = [wpc EXCEPT ![s] = "pop"]
                /\ iterations' = [iterations EXCEPT ![s] =
                       [taken |-> Len(items), done |-> FALSE,
                        heap_empty |-> FALSE, flag_set |-> FALSE]]
                /\ UNCHANGED worker
        /\ UNCHANGED <<settings, stop_event, monotonic, outcalls, stopped_at, scope>>
        /\ UNCHANGED <<endpointVars, libVars>>

\* user_target, the first half of a loop iteration: the counter, the test of
\* the stop event (the process ends if it succeeds), and _process_queue
WorkerDrain(s) ==
    LET counter == stop_check_counter[s] + 1
        items == Take(queue[s], MAX_MESSAGES)
        r == ProcessQueue(items, heap[s], wire[s], monotonic)
    IN  /\ worker[s] = "alive"
        /\ wpc[s] = "top"
        /\ stop_check_counter' = [stop_check_counter EXCEPT ![s] = counter]
        /\ IF StopSeen(counter, stop_event[s])
           THEN /\ worker' = [worker EXCEPT ![s] = "exited"]
                /\ UNCHANGED <<queue, heap, wire, empty_send_queue, wpc, iterations>>
           ELSE /\ queue' = [queue EXCEPT ![s] = Drop(@, Len(items))]
                /\ heap' = [heap EXCEPT ![s] = r.heap]
                /\ wire' = [wire EXCEPT ![s] = r.wire]
                /\ empty_send_queue' = [empty_send_queue EXCEPT ![s] =
                       IF Len(items) > 0 THEN FALSE ELSE @]
                /\ wpc' = [wpc EXCEPT ![s] = "pop"]
                /\ iterations' = [iterations EXCEPT ![s] =
                       [taken |-> Len(items), done |-> FALSE,
                        heap_empty |-> FALSE, flag_set |-> FALSE]]
                /\ UNCHANGED worker
        /\ UNCHANGED <<settings, stop_event, monotonic, outcalls, stopped_at, scope>>
        /\ UNCHANGED <<endpointVars, libVars>>

\* user_target, the second half of a loop iteration: the tasks at the head of
\* the heap are popped and executed while they are due; when the heap runs
\* empty (IndexError) the empty flag is set
WorkerPop(s) ==
    /\ worker[s] = "alive"
    /\ wpc[s] = "pop"
    /\ LET due == { task \in heap[s] : Due(task, monotonic) }
           left == heap[s] \ due
       IN  /\ \E q \in PopOrders(due) :
                  wire' = [wire EXCEPT ![s] =
                      @ \o [i \in 1..Len(q) |->
                              Transmission(q[i].method, q[i].data, monotonic,
                                           "heap", q[i].scheduled_time)]]
           /\ heap' = [heap EXCEPT ![s] = left]
           /\ empty_send_queue' = [empty_send_queue EXCEPT ![s] =
                  IF left = {} THEN TRUE ELSE @]
           /\ iterations' = [iterations EXCEPT ![s] =
                  [taken |-> @.taken, done |-> TRUE,
                   heap_empty |-> left = {}, flag_set |-> left = {}]]
    /\ wpc' = [wpc EXCEPT ![s] = "top"]
    /\ UNCHANGED <<settings, queue, stop_event, stop_check_counter, worker,
                   monotonic, outcalls, stopped_at, scope>>
    /\ UNCHANGED <<endpointVars, libVars>>

\* PacketSender.stop() on a worker that is alive: the stop event is set
\* (on a worker that is not alive the call raises RuntimeError)
SenderStop(s) ==
    /\ worker[s] = "alive"
    /\ stop_event' = [stop_event EXCEPT ![s] = TRUE]
    /\ stopped_at' = [stopped_at EXCEPT ![s] =
           IF stop_event[s] THEN @ ELSE stop_check_counter[s]]
    /\ UNCHANGED <<settings, queue, heap, empty_send_queue, stop_check_counter,
                   worker, wpc, monotonic, wire, outcalls, iterations, scope>>
    /\ UNCHANGED <<endpointVars, libVars>>

\* the monotonic clock advances
SimTick ==
    /\ monotonic' = monotonic + 1
    /\ UNCHANGED <<settings, queue, heap, empty_send_queue, stop_event,
                   stop_check_counter, worker, wpc, wire, outcalls, iterations,
                   stopped_at, scope>>
    /\ UNCHANGED <<endpointVars, libVars>>

\* get_real_world_sockets(*names, start_scheduler) up to the yield
ScopeEnter(start_scheduler) ==
    /\ scope.phase = "none"
    /\ \A s \in Sockets : worker[s] = "new"
    /\ worker' = [s \in Sockets |-> IF start_scheduler THEN "alive" ELSE "new"]
    /\ scope' = [scope EXCEPT !.phase = "body", !.start_scheduler = start_scheduler]
    /\ UNCHANGED <<settings, queue, heap, empty_send_queue, stop_event,
                   stop_check_counter, wpc, monotonic, wire, outcalls,
                   iterations, stopped_at>>
    /\ UNCHANGED <<endpointVars, libVars>>

\* the body of the with statement ends, normally or by an exception: the
\* finally clause begins
ScopeLeave(exception) ==
    /\ scope.phase = "body"
    /\ scope' = [scope EXCEPT !.phase = "stop", !.at = 1, !.exception = exception]
    /\ UNCHANGED <<settings, queue, heap, empty_send_queue, stop_event,
                   stop_check_counter, worker, wpc, monotonic, wire, outcalls,
                   iterations, stopped_at>>
    /\ UNCHANGED <<endpointVars, libVars>>

\* the finally clause, first loop: rws.stop_sender() calls stop(), which
\* raises RuntimeError out of the clause if the worker is not alive and sets
\* the stop event otherwise, and then join()
ScopeStop ==
    LET s == SocketOrder[scope.at]
    IN  /\ scope.phase = "stop"
        /\ IF worker[s] = "alive"
           THEN /\ stop_event' = [stop_event EXCEPT ![s] = TRUE]
                /\ stopped_at' = [stopped_at EXCEPT ![s] =
                       IF stop_event[s] THEN @ ELSE stop_check_counter[s]]
                /\ scope' = [scope EXCEPT !.phase = "join"]
           ELSE /\ scope' = [scope EXCEPT !.phase = "raised"]
                /\ UNCHANGED <<stop_event, stopped_at>>
        /\ UNCHANGED <<settings, queue, heap, empty_send_queue,
                       stop_check_counter, worker, wpc, monotonic, wire,
                       outcalls, iterations>>
        /\ UNCHANGED <<endpointVars, libVars>>

\* the finally clause: join() returns once the worker has left run(); it
\* closes the pipes (_clean_up) if the process still counts as alive at that
\* moment.  After the last socket the second loop runs: join_scheduler polls
\* a pipe, which raises OSError on a closed one, and finds no worker alive.
ScopeJoin(cleaned) ==
    LET s == SocketOrder[scope.at]
        closed == IF cleaned THEN scope.closed \cup {s} ELSE scope.closed
    IN  /\ scope.phase = "join"
        /\ worker[s] = "exited"
        /\ scope' = [scope EXCEPT
               !.closed = closed,
               !.at = IF @ < Len(SocketOrder) THEN @ + 1 ELSE @,
               !.phase = IF scope.at < Len(SocketOrder) THEN "stop"
                         ELSE IF closed = {} THEN "left" ELSE "raised"]
        /\ UNCHANGED <<settings, queue, heap, empty_send_queue, stop_event,
                       stop_check_counter, worker, wpc, monotonic, wire,
                       outcalls, iterations, stopped_at>>
        /\ UNCHANGED <<endpointVars, libVars>>

\* the simulator sockets after construction
SimConstructed ==
    /\ settings = [s \in Sockets |-> DefaultSettings]
    /\ queue = [s \in Sockets |-> <<>>]
    /\ heap = [s \in Sockets |-> {}]
    /\ empty_send_queue = [s \in Sockets |-> FALSE]
    /\ stop_event = [s \in Sockets |-> FALSE]
    /\ stop_check_counter = [s \in Sockets |-> 0]
    /\ worker = [s \in Sockets |-> "new"]
    /\ wpc = [s \in Sockets |-> "top"]
    /\ monotonic = 0
    /\ wire = [s \in Sockets |-> <<>>]
    /\ outcalls = [s \in Sockets |-> <<>>]
    /\ iterations = [s \in Sockets |->
           [taken |-> 0, done |-> FALSE, heap_empty |-> FALSE, flag_set |-> FALSE]]
    /\ stopped_at = [s \in Sockets |-> 0]
    /\ scope = [phase |-> "none", start_scheduler |-> FALSE, at |-> 1,
                exception |-> FALSE, closed |-> {}]

----------------------------------------------------------------------------
(* SafeProcess (src/repyable/safe_process.py): a multiprocessing.Process     *)
(* that passes the result or the exception of its target to the parent       *)
(* through two pipes.  Connection.send pickles an object and recv unpickles  *)
(* it; the values here are picklable and fit the pipe's buffer.               *)

\* None
None == [type |-> "NoneType"]

\* an int
IntValue(v) == [type |-> "int", value |-> v]

\* an exception as the child raised it, with its __traceback__
Raised(class, message) ==
    [type |-> class, message |-> message, traceback |-> "frames"]

\* traceback.format_exc() for an exception
FormatExc(e) == [type |-> "str", class |-> e.type, message |-> e.message]

\* the tuple (e, tb)
Pair(e, tb) == [type |-> "tuple", first |-> e, second |-> tb]

\* pickle.loads(pickle.dumps(obj)): an exception comes back with its class
\* and arguments and without its __traceback__
RECURSIVE Unpickled(_)
Unpickled(obj) ==
    IF obj.type = "tuple" THEN Pair(Unpickled(obj.first), Unpickled(obj.second))
    ELSE IF "traceback" \in DOMAIN obj THEN [obj EXCEPT !.traceback = "None"]
    ELSE obj

\* a _set_result that only assigns the child's attribute
SetResultBug(conn, result) == conn

\* _set_result in the child: self._child_result_conn.send(result)
SetResult(conn, result) == Append(conn, result)

\* the targets: one that returns a value, one that raises, one that polls
\* the stop event and then returns a value, one that never returns
Targets ==
    [kind : {"returns", "polls"}, value : {None, IntValue(42)}]
    \cup [kind : {"raises"}, value : {Raised("ValueError", "Test exception")}]
    \cup [kind : {"forever"}, value : {None}]

\* SafeProcess(target=...) or an instance of a subclass with user_target
Create(use_stop_event, target) ==
    /\ p_state = "none"
    /\ p_state' = "new"
    /\ p_use_stop_event' = use_stop_event
    /\ p_target' = target
    /\ UNCHANGED <<p_stop_event, exception_conn, result_conn, p_exception,
                   p_result, p_log>>
    /\ UNCHANGED <<endpointVars, simVars, cb, cb_log, pk, ensure>>

\* start()
ProcessStart ==
    /\ p_state = "new"
    /\ p_state' = "alive"
    /\ p_log' = Append(p_log, [op |-> "start", returned |-> None])
    /\ UNCHANGED <<p_use_stop_event, p_target, p_stop_event, exception_conn,
                   result_conn, p_exception, p_result>>
    /\ UNCHANGED <<endpointVars, simVars, cb, cb_log, pk, ensure>>

\* run() in the child, to its end: the target returns (a polling target once
\* the stop event is set) and the result is sent, or it raises and the pair
\* (e, tb) is sent and the exception raised again; the process ends
Run ==
    /\ p_state = "alive"
    /\ \/ p_target.kind = "returns"
       \/ p_target.kind = "raises"
       \/ p_target.kind = "polls" /\ p_stop_event
    /\ p_state' = "exited"
    /\ IF p_target.kind = "raises"
       THEN /\ exception_conn' =
                  Append(exception_conn, Pair(p_target.value, FormatExc(p_target.value)))
            /\ UNCHANGED result_conn
       ELSE /\ result_conn' = SetResult(result_conn, p_target.value)
            /\ UNCHANGED exception_conn
    /\ UNCHANGED <<p_use_stop_event, p_target, p_stop_event, p_exception,
                   p_result, p_log>>
    /\ UNCHANGED <<endpointVars, simVars, cb, cb_log, pk, ensure>>

\* a stop() that sets the event whatever the process is
StopOutcomeBug(use_stop_event, state) == "set"

\* stop(): NotImplementedError without a stop event, RuntimeError if the
\* process is not alive during 10 polls, and the event is set otherwise
StopOutcome(use_stop_event, state) ==
    IF ~use_stop_event THEN "NotImplementedError"
    ELSE IF state # "alive" THEN "RuntimeError"
    ELSE "set"

\* stop() in the parent
ProcessStop ==
    LET outcome == StopOutcome(p_use_stop_event, p_state)
    IN  /\ p_state # "none"
        /\ p_stop_event' = IF outcome = "set" THEN TRUE ELSE p_stop_event
        /\ p_log' = Append(p_log, [op |-> "stop",
                                   returned |-> IF outcome = "set" THEN None
                                                ELSE Raised(outcome, "")])
        /\ UNCHANGED <<p_state, p_use_stop_event, p_target, exception_conn,
                       result_conn, p_exception, p_result>>
        /\ UNCHANGED <<endpointVars, simVars, cb, cb_log, pk, ensure>>

\* kill()
ProcessKill ==
    /\ p_state = "alive"
    /\ p_state' = "exited"
    /\ p_log' = Append(p_log, [op |-> "kill", returned |-> None])
    /\ UNCHANGED <<p_use_stop_event, p_target, p_stop_event, exception_conn,
                   result_conn, p_exception, p_result>>
    /\ UNCHANGED <<endpointVars, simVars, cb, cb_log, pk, ensure>>

\* join() returns: the child has ended
ProcessJoin ==
    /\ p_state = "exited"
    /\ p_log' = Append(p_log, [op |-> "join", returned |-> None])
    /\ UNCHANGED <<p_state, p_use_stop_event, p_target, p_stop_event,
                   exception_conn, result_conn, p_exception, p_result>>
    /\ UNCHANGED <<endpointVars, simVars, cb, cb_log, pk, ensure>>

\* the property result: one object is received if the pipe has one
GetResult ==
    LET result == IF Len(result_conn) > 0 THEN Unpickled(Head(result_conn))
                  ELSE p_result
    IN  /\ p_state # "none"
        /\ p_result' = result
        /\ result_conn' = IF Len(result_conn) > 0 THEN Tail(result_conn) ELSE result_conn
        /\ p_log' = Append(p_log, [op |-> "result", returned |-> result])
        /\ UNCHANGED <<p_state, p_use_stop_event, p_target, p_stop_event,
                       exception_conn, p_exception>>
        /\ UNCHANGED <<endpointVars, simVars, cb, cb_log, pk, ensure>>

\* the property exception
GetException ==
    LET exception == IF Len(exception_conn) > 0 THEN Unpickled(Head(exception_conn))
                     ELSE p_exception
    IN  /\ p_state # "none"
        /\ p_exception' = exception
        /\ exception_conn' = IF Len(exception_conn) > 0 THEN Tail(exception_conn)
                             ELSE exception_conn
        /\ p_log' = Append(p_log, [op |-> "exception", returned |-> exception])
        /\ UNCHANGED <<p_state, p_use_stop_event, p_target, p_stop_event,
                       result_conn, p_result>>
        /\ UNCHANGED <<endpointVars, simVars, cb, cb_log, pk, ensure>>

----------------------------------------------------------------------------
(* CircularBuffer (src/repyable/circular_buffer.py): a list of size slots,   *)
(* the index head of the next write, the index tail of the oldest item and   *)
(* the number count of items.  Python's indices start at 0; slot i of the    *)
(* list is buffer[i + 1] here.                                                *)

\* the variables of the SafeProcess object
procVars ==
    <<p_state, p_use_stop_event, p_target, p_stop_event, exception_conn,
      result_conn, p_exception, p_result, p_log>>

\* the items that are pushed
Items == {IntValue(1), IntValue(2)}

\* no buffer has been constructed
NoBuffer == [size |-> 0, buffer |-> <<>>, head |-> 0, tail |-> 0, count |-> 0]

\* CircularBuffer(size)
CircularBuffer(size) ==
    [size |-> size, buffer |-> [i \in 1..size |-> None], head |-> 0,
     tail |-> 0, count |-> 0]

\* a push that leaves tail where it is when the buffer is full
PushBug(b, item) ==
    [b EXCEPT !.buffer[b.head + 1] = item,
              !.head = (b.head + 1) % b.size,
              !.count = IF b.count < b.size THEN b.count + 1 ELSE b.count]

\* push(item): the object after the call
Push(b, item) ==
    [b EXCEPT !.buffer[b.head + 1] = item,
              !.head = (b.head + 1) % b.size,
              !.count = IF b.count < b.size THEN b.count + 1 ELSE b.count,
              !.tail = IF b.count < b.size THEN b.tail ELSE (b.tail + 1) % b.size]

\* pop(): the object after the call; the slot keeps the item
Pop(b) ==
    IF b.count = 0 THEN b
    ELSE [b EXCEPT !.tail = (b.tail + 1) % b.size, !.count = b.count - 1]

\* pop(): the value returned
PopReturns(b) == IF b.count = 0 THEN None ELSE b.buffer[b.tail + 1]

\* buffer[index] for index < count
GetItem(b, index) == b.buffer[((b.tail + index) % b.size) + 1]

\* list(buffer): __iter__ yields self[i] for i in range(count)
List(b) == [i \in 1..b.count |-> GetItem(b, i - 1)]

\* item in buffer: __contains__ tests the whole list of slots
Contains(b, item) == \E i \in 1..b.size : b.buffer[i] = item

\* the constructor call
NewBuffer(size) ==
    /\ cb = NoBuffer
    /\ cb' = CircularBuffer(size)
    /\ UNCHANGED cb_log
    /\ UNCHANGED <<endpointVars, simVars, procVars, pk, ensure>>

\* a call of push
DoPush(item) ==
    /\ cb # NoBuffer
    /\ cb' = Push(cb, item)
    /\ cb_log' = Append(cb_log, [op |-> "push", item |-> item])
    /\ UNCHANGED <<endpointVars, simVars, procVars, pk, ensure>>

\* a call of pop
DoPop ==
    /\ cb # NoBuffer
    /\ cb' = Pop(cb)
    /\ cb_log' = Append(cb_log, [op |-> "pop", item |-> PopReturns(cb)])
    /\ UNCHANGED <<endpointVars, simVars, procVars, pk, ensure>>

----------------------------------------------------------------------------
(* The bit-level packet codec (src/repyable/packet.py).  A bitstring.Bits is *)
(* a sequence of bits, the most significant bit of a byte first; a position  *)
(* in it is counted from 0 as in Python.  A packet is 34 header bits (the    *)
(* checksum as uint:32, the type as uint:2), the payload and the trailer.    *)

\* _magic_prefix: b"repyable 0.0.1 long r4nd0m pr3f1x!!"
MagicPrefix ==
    <<114, 101, 112, 121, 97, 98, 108, 101, 32, 48, 46, 48, 46, 49, 32, 108,
      111, 110, 103, 32, 114, 52, 110, 100, 48, 109, 32, 112, 114, 51, 102,
      49, 120, 33, 33>>

\* _trailer: b"REPY"
Trailer == <<82, 69, 80, 89>>

\* _header_bit_len
HeaderBitLen == 34

\* the members of the enum Type: A = 1, B = 2, C = 3
Types == 1..3

\* the bits of an unsigned integer of n bits
UintBits(v, n) == [i \in 1..n |-> (v \div Pow2(n - i)) % 2]

\* the unsigned integer of a sequence of bits
RECURSIVE UintOf(_, _)
UintOf(bits, n) == IF n = 0 THEN 0 ELSE 2 * UintOf(bits, n - 1) + bits[n]
Uint(bits) == UintOf(bits, Len(bits))

\* bitstring.Bits(data) for bytes
RECURSIVE BytesBits(_)
BytesBits(data) ==
    IF data = <<>> THEN <<>> ELSE UintBits(Head(data), 8) \o BytesBits(Tail(data))

\* Bits.tobytes(): the bits are padded with zero bits up to a whole byte
RECURSIVE ToBytes(_)
ToBytes(bits) ==
    IF bits = <<>> THEN <<>>
    ELSE IF Len(bits) < 8 THEN <<Uint(bits \o Rep(0, 8 - Len(bits)))>>
    ELSE <<Uint(Take(bits, 8))>> \o ToBytes(Drop(bits, 8))

\* zlib.crc32 works byte by byte with a table of 256 words made from the
\* polynomial 0xEDB88320; the word of an index is the sum modulo 2 of the
\* words of its bits.  These are the words of the indices 0x80, 0x40, ...,
\* 0x01, each as 32 bits
CrcTableBits ==
    <<
      <<1,1,1,0,1,1,0,1,1,0,1,1,1,0,0,0,1,0,0,0,0,0,1,1,0,0,1,0,0,0,0,0>>,
      <<0,1,1,1,0,1,1,0,1,1,0,1,1,1,0,0,0,1,0,0,0,0,0,1,1,0,0,1,0,0,0,0>>,
      <<0,0,1,1,1,0,1,1,0,1,1,0,1,1,1,0,0,0,1,0,0,0,0,0,1,1,0,0,1,0,0,0>>,
      <<0,0,0,1,1,1,0,1,1,0,1,1,0,1,1,1,0,0,0,1,0,0,0,0,0,1,1,0,0,1,0,0>>,
      <<0,0,0,0,1,1,1,0,1,1,0,1,1,0,1,1,1,0,0,0,1,0,0,0,0,0,1,1,0,0,1,0>>,
      <<0,0,0,0,0,1,1,1,0,1,1,0,1,1,0,1,1,1,0,0,0,1,0,0,0,0,0,1,1,0,0,1>>,
      <<1,1,1,0,1,1,1,0,0,0,0,0,1,1,1,0,0,1,1,0,0,0,0,1,0,0,1,0,1,1,0,0>>,
      <<0,1,1,1,0,1,1,1,0,0,0,0,0,1,1,1,0,0,1,1,0,0,0,0,1,0,0,1,0,1,1,0>>
    >>

\* the word of the table for an index given as 8 bits
CrcTable(index) ==
    [i \in 1..32 |->
        (index[1] * CrcTableBits[1][i] + index[2] * CrcTableBits[2][i]
         + index[3] * CrcTableBits[3][i] + index[4] * CrcTableBits[4][i]
         + index[5] * CrcTableBits[5][i] + index[6] * CrcTableBits[6][i]
         + index[7] * CrcTableBits[7][i] + index[8] * CrcTableBits[8][i]) % 2]
    \o <<>>

\* the register after a byte: crc = table[(crc ^ byte) & 0xFF] ^ (crc >> 8)
CrcByte(reg, byte) ==
    LET index == [i \in 1..8 |-> (reg[24 + i] + UintBits(byte, 8)[i]) % 2] \o <<>>
        word == CrcTable(index)
    IN  [i \in 1..32 |-> IF i <= 8 THEN word[i] ELSE (word[i] + reg[i - 8]) % 2]
        \o <<>>

\* the register after the first n bytes of data; it starts as 0xFFFFFFFF
RECURSIVE CrcRegister(_, _)
CrcRegister(data, n) ==
    IF n = 0 THEN Rep(1, 32) \o <<>>
    ELSE CrcByte(CrcRegister(data, n - 1), data[n])

\* The 35 bytes of _magic_prefix take the register r to a register whose
\* every bit is a sum modulo 2 of bits of r and a constant, as each step of
\* the table-driven algorithm does: MagicConstant is the register they make
\* of 0, and row i of MagicMatrix names the bits of r that bit i depends on.
MagicConstant ==
    <<1,0,1,0,1,0,1,0,1,1,0,0,1,0,1,1,0,1,1,0,0,1,1,0,0,1,1,1,1,0,1,1>>

MagicMatrix ==
    <<
      <<1,0,0,0,1,0,0,1,0,1,0,1,0,1,0,0,1,1,0,0,1,1,0,0,0,1,1,0,1,1,0,1>>,
      <<1,1,0,0,1,1,0,1,1,1,1,1,1,1,1,0,1,0,1,0,1,0,1,0,0,1,0,1,1,0,1,1>>,
      <<1,1,1,0,1,1,1,1,1,0,1,0,1,0,1,1,1,0,0,1,1,0,0,1,0,1,0,0,0,0,0,0>>,
      <<0,1,1,1,0,1,1,1,1,1,0,1,0,1,0,1,1,1,0,0,1,1,0,0,1,0,1,0,0,0,0,0>>,
      <<1,0,1,1,0,0,1,0,1,0,1,1,1,1,1,0,0,0,1,0,1,0,1,0,0,0,1,1,1,1,0,1>>,
      <<0,1,0,1,0,0,0,0,0,0,0,0,1,0,1,1,1,1,0,1,1,0,0,1,0,1,1,1,0,0,1,1>>,
      <<1,0,1,0,1,0,0,0,0,0,0,0,0,1,0,1,1,1,1,0,1,1,0,0,1,0,1,1,1,0,0,1>>,
      <<0,1,0,1,1,1,0,1,0,1,0,1,0,1,1,0,0,0,1,1,1,0,1,0,0,0,1,1,0,0,0,1>>,
      <<1,0,1,0,0,1,1,1,1,1,1,1,1,1,1,1,1,1,0,1,0,0,0,1,0,1,1,1,0,1,0,1>>,
      <<1,1,0,1,0,0,1,1,1,1,1,1,1,1,1,1,1,1,1,0,1,0,0,0,1,0,1,1,1,0,1,0>>,
      <<0,1,1,0,0,0,0,0,1,0,1,0,1,0,1,1,0,0,1,1,1,0,0,0,0,0,1,1,0,0,0,0>>,
      <<0,0,1,1,1,0,0,1,0,0,0,0,0,0,0,1,0,1,0,1,0,0,0,0,0,1,1,1,0,1,0,1>>,
      <<1,0,0,1,0,1,0,1,1,1,0,1,0,1,0,0,0,1,1,0,0,1,0,0,0,1,0,1,0,1,1,1>>,
      <<0,1,0,0,1,0,1,0,1,1,1,0,1,0,1,0,0,0,1,1,0,0,1,0,0,0,1,0,1,0,1,1>>,
      <<1,0,1,0,0,1,0,1,0,1,1,1,0,1,0,1,0,0,0,1,1,0,0,1,0,0,0,1,0,1,0,1>>,
      <<1,1,0,1,0,0,1,0,1,0,1,1,1,0,1,0,1,0,0,0,1,1,0,0,1,0,0,0,1,0,1,0>>,
      <<0,1,1,0,0,0,0,0,0,0,0,0,1,0,0,1,1,0,0,0,1,0,1,0,0,0,1,0,1,0,0,0>>,
      <<1,0,1,1,0,0,0,0,0,0,0,0,0,1,0,0,1,1,0,0,0,1,0,1,0,0,0,1,0,1,0,0>>,
      <<1,1,0,1,1,0,0,0,0,0,0,0,0,0,1,0,0,1,1,0,0,0,1,0,1,0,0,0,1,0,1,0>>,
      <<1,1,1,0,1,1,0,0,0,0,0,0,0,0,0,1,0,0,1,1,0,0,0,1,0,1,0,0,0,1,0,1>>,
      <<0,1,1,1,0,1,1,0,0,0,0,0,0,0,0,0,1,0,0,1,1,0,0,0,1,0,1,0,0,0,1,0>>,
      <<1,0,1,1,1,0,1,1,0,0,0,0,0,0,0,0,0,1,0,0,1,1,0,0,0,1,0,1,0,0,0,1>>,
      <<1,1,0,1,0,1,0,0,1,1,0,1,0,1,0,0,1,1,1,0,1,0,1,0,0,1,0,0,0,1,0,1>>,
      <<1,1,1,0,0,0,1,1,0,0,1,1,1,1,1,0,1,0,1,1,1,0,0,1,0,1,0,0,1,1,1,1>>,
      <<0,1,1,1,0,0,0,1,1,0,0,1,1,1,1,1,0,1,0,1,1,1,0,0,1,0,1,0,0,1,1,1>>,
      <<1,0,1,1,1,0,0,0,1,1,0,0,1,1,1,1,1,0,1,0,1,1,1,0,0,1,0,1,0,0,1,1>>,
      <<0,1,0,1,0,1,0,1,0,0,1,1,0,0,1,1,0,0,0,1,1,0,1,1,0,1,0,0,0,1,0,0>>,
      <<0,0,1,0,1,0,1,0,1,0,0,1,1,0,0,1,1,0,0,0,1,1,0,1,1,0,1,0,0,0,1,0>>,
      <<1,0,0,1,0,1,0,1,0,1,0,0,1,1,0,0,1,1,0,0,0,1,1,0,1,1,0,1,0,0,0,1>>,
      <<0,1,0,0,1,0,1,0,1,0,1,0,0,1,1,0,0,1,1,0,0,0,1,1,0,1,1,0,1,0,0,0>>,
      <<0,0,1,0,0,1,0,1,0,1,0,1,0,0,1,1,0,0,1,1,0,0,0,1,1,0,1,1,0,1,0,0>>,
      <<0,0,0,1,0,0,1,0,1,0,1,0,1,0,0,1,1,0,0,1,1,0,0,0,1,1,0,1,1,0,1,0>>
    >>

\* the register after the bytes of _magic_prefix
AfterMagicPrefix(reg) ==
    [i \in 1..32 |->
        (MagicConstant[i]
         + Cardinality({j \in 1..32 : MagicMatrix[i][j] = 1 /\ reg[j] = 1})) % 2]
    \o <<>>

\* CRC32.generate(data): crc32(data + _magic_prefix) as the 32 bits of the
\* unsigned value; zlib.crc32 ends by inverting the register
CRC32Generate(data) ==
    LET reg == AfterMagicPrefix(CrcRegister(data \o <<>>, Len(data)))
    IN  [i \in 1..32 |-> 1 - reg[i]] \o <<>>

\* Header.to_bits(): bitstring.pack("uint:32, uint:2", checksum, packet_type)
HeaderToBits(header) == header.checksum \o UintBits(header.packet_type, 2)

\* the result of a call: the exception raised, or the header and the payload
Raises(exception) ==
    [raises |-> exception, header |-> [checksum |-> <<>>, packet_type |-> 0],
     payload |-> <<>>]
Returns(header, payload) ==
    [raises |-> "", header |-> header, payload |-> payload]

\* Header.from_bits(data) for data of at least 34 bits: Type(packet_type)
\* raises ValueError for a value that is no member of the enum
HeaderFromBits(data) ==
    LET checksum == Take(data, 32)
        packet_type == Uint(Slice(data, 32, HeaderBitLen))
    IN  IF packet_type \notin Types THEN Raises("ValueError")
        ELSE Returns([checksum |-> checksum, packet_type |-> packet_type],
                     Drop(data, HeaderBitLen))

\* Packet.create(packet_type, payload) for payload in bytes
PacketCreate(packet_type, payload) ==
    [header |-> [checksum |-> CRC32Generate(payload), packet_type |-> packet_type],
     payload |-> BytesBits(payload)]

\* Packet.pack()
PacketPack(packet) ==
    HeaderToBits(packet.header) \o packet.payload \o BytesBits(Trailer)

\* Bits.findall(bs, start=start) for 0 <= start: the positions of all
\* occurrences of bs at or after start, overlapping ones too
FindAll(data, bs, start) ==
    {i \in start..(Len(data) - Len(bs)) : Slice(data, i, i + Len(bs)) = bs}

\* the greatest element of a non-empty set of positions
Greatest(S) == CHOOSE i \in S : \A j \in S : j <= i

\* Packet.strip_trailer(data) for data of at least 39 bits
StripTrailer(data) ==
    LET bit_trailer == BytesBits(Trailer)
        start_idx == Len(data) - (Len(bit_trailer) + 7)
        found == FindAll(data, bit_trailer, start_idx)
    IN  IF found = {} THEN Raises("SerializationCheckMismatchError")
        ELSE Returns([checksum |-> <<>>, packet_type |-> 0],
                     Take(data, Greatest(found)))

\* Packet.unpack(data): Payload(remainder).checksum is computed from
\* remainder.tobytes()
PacketUnpack(data) ==
    LET parsed == HeaderFromBits(data)
    IN  IF parsed.raises # "" THEN parsed
        ELSE IF parsed.header.checksum # CRC32Generate(ToBytes(parsed.payload))
        THEN Raises("ChecksumMismatchError")
        ELSE parsed

\* Packet.from_bits(data)
PacketFromBits(data) ==
    LET stripped == StripTrailer(data)
    IN  IF stripped.raises # "" THEN stripped ELSE PacketUnpack(stripped.payload)

\* no packet has been created
NoCodec ==
    [phase |-> "none", packet_type |-> 0, payload |-> <<>>,
     packet |-> [header |-> [checksum |-> <<>>, packet_type |-> 0], payload |-> <<>>],
     bits |-> <<>>, edits |-> <<>>, result |-> Raises("")]

\* the variables of the CircularBuffer
bufVars == <<cb, cb_log>>

\* a call of Packet.create
CodecCreate(packet_type, payload) ==
    /\ pk.phase = "none"
    /\ pk' = [pk EXCEPT !.phase = "created", !.packet_type = packet_type,
                        !.payload = payload,
                        !.packet = PacketCreate(packet_type, payload)]
    /\ UNCHANGED <<endpointVars, simVars, procVars, bufVars, ensure>>

\* a call of pack
CodecPack ==
    /\ pk.phase = "created"
    /\ pk' = [pk EXCEPT !.phase = "packed", !.bits = PacketPack(pk.packet)]
    /\ UNCHANGED <<endpointVars, simVars, procVars, bufVars, ensure>>

\* what happens to the bits before from_bits is called with them: one bit at
\* position i is inverted, the type field is cleared, the last i bits are
\* lost (at least 39 stay), or i zero bits of padding are added
Edited(bits, kind, i) ==
    IF kind = "flip" THEN [bits EXCEPT ![i + 1] = 1 - @]
    ELSE IF kind = "type" THEN [bits EXCEPT ![33] = 0, ![34] = 0]
    ELSE IF kind = "cut" THEN Take(bits, Len(bits) - i)
    ELSE bits \o Rep(0, i)

CodecEdit(kind, i) ==
    /\ pk.phase = "packed"
    /\ kind = "flip" => i < Len(pk.bits)
    /\ kind = "cut" => Len(pk.bits) - i >= 39
    /\ pk' = [pk EXCEPT !.bits = Edited(pk.bits, kind, i),
                        !.edits = Append(pk.edits, kind)]
    /\ UNCHANGED <<endpointVars, simVars, procVars, bufVars, ensure>>

\* a call of Packet.from_bits
CodecFromBits ==
    /\ pk.phase = "packed"
    /\ pk' = [pk EXCEPT !.phase = "decoded", !.result = PacketFromBits(pk.bits)]
    /\ UNCHANGED <<endpointVars, simVars, procVars, bufVars, ensure>>

----------------------------------------------------------------------------
(* RealWorldUDPSocket.ensure_empty_send_queue                                *)
(* (src/tests/util/real_world_socket.py): a thread of the producer polls the *)
(* worker's empty flag every 0.1 s until it has seen it set 3 times in a row *)

\* time.sleep(0.1) in units of the clock
ENSURE_SLEEP == 200

\* empty_goal
EMPTY_GOAL == 3

\* no call of ensure_empty_send_queue is under way
NotEnsuring == [pc |-> "idle", empty_count |-> 0, before |-> 0]

\* the variables of the other objects
otherVars == <<procVars, bufVars, pk>>

\* ensure_empty_send_queue() is called on socket s; before is the number of
\* send and sendto calls made on s so far
EnsureCall(s) ==
    /\ ensure[s].pc = "idle"
    /\ ensure' = [ensure EXCEPT ![s] =
            [pc |-> "poll", empty_count |-> 0, before |-> Len(outcalls[s])]]
    /\ UNCHANGED <<endpointVars, simVars, otherVars>>

\* the loop ends: empty_count >= empty_goal
EnsureGoal(empty_count) == empty_count >= EMPTY_GOAL

\* one turn of the loop: the flag is read, the count incremented or reset,
\* and the call returns or sleeps
EnsurePoll(s) ==
    LET empty_count == IF empty_send_queue[s] THEN ensure[s].empty_count + 1 ELSE 0
    IN  /\ ensure[s].pc = "poll"
        /\ ensure' = [ensure EXCEPT ![s].empty_count = empty_count,
                                    ![s].pc = IF EnsureGoal(empty_count)
                                              THEN "returned" ELSE "poll"]
        /\ monotonic' = IF EnsureGoal(empty_count) THEN monotonic
                        ELSE monotonic + ENSURE_SLEEP
        /\ UNCHANGED <<settings, queue, heap, empty_send_queue, stop_event,
                       stop_check_counter, worker, wpc, wire, outcalls,
                       iterations, stopped_at, scope>>
        /\ UNCHANGED <<endpointVars, otherVars>>

\* no SafeProcess, no CircularBuffer and no Packet has been constructed, and
\* nobody waits in ensure_empty_send_queue
LibConstructed ==
    /\ p_state = "none"
    /\ p_use_stop_event = FALSE
    /\ p_target = [kind |-> "returns", value |-> None]
    /\ p_stop_event = FALSE
    /\ exception_conn = <<>>
    /\ result_conn = <<>>
    /\ p_exception = None
    /\ p_result = None
    /\ p_log = <<>>
    /\ cb = NoBuffer
    /\ cb_log = <<>>
    /\ pk = NoCodec
    /\ ensure = [s \in Sockets |-> NotEnsuring]

----------------------------------------------------------------------------
(* Construction *)

\* __init__
Constructed(c) ==
    /\ cfg = c
    /\ sequence = [e \in Endpoints |-> 0]
    /\ acks = [e \in Endpoints |-> <<>>]
    /\ sent_packets = [e \in Endpoints |->
                         [i \in 1..c.sent_packets_buffer_size |-> NoPacket]]
    /\ received_packets = [e \in Endpoints |->
                         [i \in 1..c.received_packets_buffer_size |-> NoPacket]]
    /\ fragments = [e \in Endpoints |-> << >>]
    /\ rtt = [e \in Endpoints |-> <<0, 0>>]
    /\ running = [e \in Endpoints |-> FALSE]
    /\ loops = [e \in Endpoints |-> 0]
    /\ receive_thread = [e \in Endpoints |-> "None"]
    /\ joining = [e \in Endpoints |-> FALSE]
    /\ last_update_time = [e \in Endpoints |-> 0]
    /\ now = 0
    /\ sends = [e \in Endpoints |-> <<>>]
    /\ calls = [e \in Endpoints |-> <<>>]
    /\ samples = [e \in Endpoints |-> <<>>]
    /\ delivered = [e \in Endpoints |-> <<>>]
    /\ sequence0 = sequence
    /\ born = [e \in Endpoints |-> << >>]
    /\ foreign = [e \in Endpoints |-> {}]
    /\ sending = [e \in Endpoints |-> NotSending]
    /\ SimConstructed
    /\ LibConstructed

\* a small configuration in which every fragment datagram (2 + 1..3 bytes)
\* is longer than fragment_above
SmallConfig ==
    [max_packet_size |-> 4, fragment_above |-> 2, max_fragments |-> 16,
     fragment_size |-> 3, ack_buffer_size |-> 2,
     sent_packets_buffer_size |-> 3, received_packets_buffer_size |-> 2,
     rtt_smoothing_factor |-> 1]

Payloads == { <<7>>, <<1, 2, 3>>, <<1, 2, 3, 4, 5>> }

Init == Constructed(SmallConfig)

Next ==
    \/ \E e \in Endpoints : loops[e] < MaxLoops /\ Start(e)
    \/ \E data \in Payloads : Len(sends["A"]) < MaxSend /\ SendPacket("A", data)
    \/ \E data \in Payloads : Len(sends["B"]) < MaxPeerSend /\ SendPacket("B", data)
    \/ \E d \in Net("A"), ret \in BOOLEAN :
          Len(delivered["A"]) < MaxRecv /\ ReceiveLoop("A", d, ret)
    \/ \E d \in Net("B"), ret \in BOOLEAN :
          Len(delivered["B"]) < MaxPeerRecv /\ ReceiveLoop("B", d, ret)
    \/ now < MaxTime /\ Tick

Spec == Init /\ [][Next]_vars

----------------------------------------------------------------------------
(* The sender alone, across the 65535 -> 0 boundary *)

MaxWrapSend == 10   \* SpecWrap: send_packet calls of endpoint A

WrapPayload == <<7>>

WrapStarts == {0, 65530}

WrapPayloads == { WrapPayload, <<1, 2, 3, 4, 5>> }

\* self.sent_packets after send_packet(data) was called n times at time 0:
\* slot i holds the newest of the sequences 0..n-1 that is i modulo the size
WindowAfterSends(size, n, data) ==
    [i \in 1..size |->
        LET S == { q \in (IF n > size THEN n - size ELSE 0)..(n - 1) : q % size = i - 1 }
        IN  IF S = {} THEN NoPacket ELSE Packet(CHOOSE q \in S : TRUE, data, 0)]

\* the state after construction and s0 calls of A.send_packet(WrapPayload)
InitWrap ==
    \E s0 \in WrapStarts :
        /\ cfg = SmallConfig
        /\ sequence = [e \in Endpoints |-> IF e = "A" THEN s0 ELSE 0]
        /\ acks = [e \in Endpoints |-> <<>>]
        /\ sent_packets = [e \in Endpoints |->
              WindowAfterSends(SmallConfig.sent_packets_buffer_size,
                               IF e = "A" THEN s0 ELSE 0, WrapPayload)]
        /\ received_packets = [e \in Endpoints |->
              [i \in 1..SmallConfig.received_packets_buffer_size |-> NoPacket]]
        /\ fragments = [e \in Endpoints |-> << >>]
        /\ rtt = [e \in Endpoints |-> <<0, 0>>]
        /\ running = [e \in Endpoints |-> FALSE]
        /\ loops = [e \in Endpoints |-> 0]
        /\ receive_thread = [e \in Endpoints |-> "None"]
        /\ joining = [e \in Endpoints |-> FALSE]
        /\ last_update_time = [e \in Endpoints |-> 0]
        /\ now = 0
        /\ sends = [e \in Endpoints |-> <<>>]
        /\ calls = [e \in Endpoints |-> <<>>]
        /\ samples = [e \in Endpoints |-> <<>>]
        /\ delivered = [e \in Endpoints |-> <<>>]
        /\ sequence0 = sequence
        /\ born = [e \in Endpoints |-> << >>]
        /\ foreign = [e \in Endpoints |-> {}]
        /\ sending = [e \in Endpoints |-> NotSending]
        /\ SimConstructed
        /\ LibConstructed

NextWrap ==
    \E data \in WrapPayloads : Len(sends["A"]) < MaxWrapSend /\ SendPacket("A", data)

SpecWrap == InitWrap /\ [][NextWrap]_vars

----------------------------------------------------------------------------
(* The sender alone, every kind of payload *)

MaxSendOnly == 3    \* SpecSend: send_packet calls of endpoint A
MaxSendTime == 1    \* SpecSend: clock ticks

\* empty; single; single but longer than fragment_above; 2 fragments;
\* 255 fragments; 256 fragments
SendPayloads ==
    { <<>>, <<7>>, <<1, 2, 3>>, <<1, 2, 3, 4, 5>>,
      Rep(0, UBYTE_MAX * SmallConfig.fragment_size),
      Rep(0, UBYTE_MAX * SmallConfig.fragment_size + 1) }

NextSend ==
    \/ \E data \in SendPayloads :
          Len(sends["A"]) < MaxSendOnly /\ SendPacket("A", data)
    \/ now < MaxSendTime /\ Tick

SpecSend == Init /\ [][NextSend]_vars

----------------------------------------------------------------------------
(* The sender alone, with a small max_fragments *)

MaxLimitSend == 3   \* SpecLimit: send_packet calls of endpoint A
MaxLimitTime == 1   \* SpecLimit: clock ticks

\* max_fragments=2, the rest as in SmallConfig
LimitConfig == [SmallConfig EXCEPT !.max_fragments = 2]

\* single; 2 fragments; 3 fragments; 4 fragments
LimitPayloads ==
    { <<7>>, <<1, 2, 3, 4, 5>>, <<1, 2, 3, 4, 5, 6, 7>>, Rep(8, 10) }

InitLimit == Constructed(LimitConfig)

NextLimit ==
    \/ \E data \in LimitPayloads :
          Len(sends["A"]) < MaxLimitSend /\ SendPacket("A", data)
    \/ now < MaxLimitTime /\ Tick

SpecLimit == InitLimit /\ [][NextLimit]_vars

----------------------------------------------------------------------------
(* The receiver alone: B sends, A's receive loop processes *)

MaxRecvSend == 2    \* SpecRecv: send_packet calls of endpoint B
MaxRecvOnly == 3    \* SpecRecv: datagrams processed by endpoint A

\* single; single but longer than fragment_above, read as fragment 1 of 2;
\* 2 fragments
RecvPayloads == { <<7>>, <<1, 2, 3>>, <<1, 2, 3, 4, 5>> }

NextRecv ==
    \/ loops["A"] < MaxLoops /\ Start("A")
    \/ \E data \in RecvPayloads :
          Len(sends["B"]) < MaxRecvSend /\ SendPacket("B", data)
    \/ \E d \in Net("A"), ret \in BOOLEAN :
          Len(delivered["A"]) < MaxRecvOnly /\ ReceiveLoop("A", d, ret)

SpecRecv == Init /\ [][NextRecv]_vars

----------------------------------------------------------------------------
(* Reassembly: B sends one payload, A's receive loop gets its datagrams in
   any order, any number of times *)

MaxFragSend == 1    \* SpecFrag: send_packet calls of endpoint B
MaxFragRecv == 4    \* SpecFrag: datagrams processed by endpoint A

\* single; single but longer than fragment_above, read as fragment 1 of 2,
\* or as fragment 9 of 1 (IndexError); 2 fragments; 3 fragments
FragPayloads ==
    { <<7>>, <<1, 2, 3>>, <<9, 1, 3>>, <<1, 2, 3, 4, 5>>, <<1, 2, 3, 4, 5, 6, 7>> }

NextFrag ==
    \/ loops["A"] < MaxLoops /\ Start("A")
    \/ \E data \in FragPayloads :
          Len(sends["B"]) < MaxFragSend /\ SendPacket("B", data)
    \/ \E d \in Net("A"), ret \in BOOLEAN :
          Len(delivered["A"]) < MaxFragRecv /\ ReceiveLoop("A", d, ret)

SpecFrag == Init /\ [][NextFrag]_vars

----------------------------------------------------------------------------
(* Scenario S2 of the specification: A sends to B *)

MaxS2Send == 2      \* SpecS2: send_packet calls of endpoint A
MaxS2Recv == 2      \* SpecS2: datagrams processed by endpoint B
MaxS2Time == 1      \* SpecS2: clock ticks

\* fragment_size=100, max_packet_size=1200, fragment_above=90, the rest default
S2Config ==
    [max_packet_size |-> 1200, fragment_above |-> 90, max_fragments |-> 16,
     fragment_size |-> 100, ack_buffer_size |-> 32,
     sent_packets_buffer_size |-> 256, received_packets_buffer_size |-> 256,
     rtt_smoothing_factor |-> 1]

S2Payload == Rep(65, 350)       \* b"A" * 350

S2Payloads == { S2Payload, Rep(66, 50) }

InitS2 == Constructed(S2Config)

NextS2 ==
    \/ loops["B"] < MaxLoops /\ Start("B")
    \/ \E data \in S2Payloads : Len(sends["A"]) < MaxS2Send /\ SendPacket("A", data)
    \/ \E d \in Net("B"), ret \in BOOLEAN :
          Len(delivered["B"]) < MaxS2Recv /\ ReceiveLoop("B", d, ret)
    \/ now < MaxS2Time /\ Tick

SpecS2 == InitS2 /\ [][NextS2]_vars

----------------------------------------------------------------------------
(* Long ack histories: A has accepted datagrams of B before *)

MaxAckSend == 2     \* SpecAck: send_packet calls of endpoint B
MaxAckRecv == 2     \* SpecAck: datagrams processed by endpoint A

AckBufferSizes == {32, 33}

\* what A accepted (in order), and how many packets B has sent, so far
AckPrehistories ==
    { [accepted |-> <<0, 1, 2, 4>>, sent |-> 6],
      [accepted |-> <<0>> \o Rep(1, 31), sent |-> 2] }

\* self.acks after _process_packet accepted the sequences seqs in order
RECURSIVE AcksAfter(_, _, _)
AcksAfter(history, seqs, size) ==
    IF Len(seqs) = 0 THEN history
    ELSE AcksAfter(AppendAck(history, Head(seqs), size), Tail(seqs), size)

\* self.received_packets after the same
RECURSIVE WindowAfter(_, _, _)
WindowAfter(window, seqs, data) ==
    IF Len(seqs) = 0 THEN window
    ELSE WindowAfter(Insert(window, Head(seqs), data, 0), Tail(seqs), data)

\* the state after construction, A.start(), pre.sent calls of
\* B.send_packet(WrapPayload) and A's receive loop accepting pre.accepted
InitAck ==
    \E size \in AckBufferSizes, pre \in AckPrehistories :
        LET c == [SmallConfig EXCEPT !.ack_buffer_size = size]
        IN  /\ cfg = c
            /\ sequence = [e \in Endpoints |-> IF e = "B" THEN pre.sent ELSE 0]
            /\ acks = [e \in Endpoints |->
                  IF e = "A" THEN AcksAfter(<<>>, pre.accepted, size) ELSE <<>>]
            /\ sent_packets = [e \in Endpoints |->
                  WindowAfterSends(c.sent_packets_buffer_size,
                                   IF e = "B" THEN pre.sent ELSE 0, WrapPayload)]
            /\ received_packets = [e \in Endpoints |->
                  WindowAfter([i \in 1..c.received_packets_buffer_size |-> NoPacket],
                              IF e = "A" THEN pre.accepted ELSE <<>>, WrapPayload)]
            /\ fragments = [e \in Endpoints |-> << >>]
            /\ rtt = [e \in Endpoints |-> <<0, 0>>]
            /\ running = [e \in Endpoints |-> e = "A"]
            /\ loops = [e \in Endpoints |-> IF e = "A" THEN 1 ELSE 0]
            /\ receive_thread = [e \in Endpoints |->
                  IF e = "A" THEN "alive" ELSE "None"]
            /\ joining = [e \in Endpoints |-> FALSE]
            /\ last_update_time = [e \in Endpoints |-> 0]
            /\ now = 0
            /\ sends = [e \in Endpoints |-> <<>>]
            /\ calls = [e \in Endpoints |-> <<>>]
            /\ samples = [e \in Endpoints |-> <<>>]
            /\ delivered = [e \in Endpoints |-> <<>>]
            /\ sequence0 = sequence
            /\ born = [e \in Endpoints |-> << >>]
            /\ foreign = [e \in Endpoints |-> {}]
            /\ sending = [e \in Endpoints |-> NotSending]
            /\ SimConstructed
            /\ LibConstructed

NextAck ==
    \/ \E data \in RecvPayloads :
          Len(sends["B"]) < MaxAckSend /\ SendPacket("B", data)
    \/ \E d \in Net("A"), ret \in BOOLEAN :
          Len(delivered["A"]) < MaxAckRecv /\ ReceiveLoop("A", d, ret)

SpecAck == InitAck /\ [][NextAck]_vars

----------------------------------------------------------------------------
(* The life of endpoint A: the application calls start(), stop() and
   send_packet in any order, B sends to A, and the threads of A's receive
   loops run.  start() and stop() are calls of one application thread, which
   makes no call while it waits in stop() *)

MaxLifeLoops == 2   \* SpecLife: live receive loops of endpoint A
MaxLifeSend == 1    \* SpecLife: send_packet calls of each endpoint
MaxLifeRecv == 2    \* SpecLife: datagrams processed by endpoint A

LifePayloads == { <<7>>, <<1, 2, 3, 4, 5>> }

NextLife ==
    \/ loops["A"] < MaxLifeLoops /\ ~joining["A"] /\ Start("A")
    \/ ~joining["A"] /\ Stop("A")
    \/ JoinReturns("A")
    \/ ReadTimeout("A")
    \/ \E data \in LifePayloads :
          Len(sends["A"]) < MaxLifeSend /\ ~joining["A"] /\ SendPacket("A", data)
    \/ \E data \in LifePayloads :
          Len(sends["B"]) < MaxLifeSend /\ SendPacket("B", data)
    \/ \E d \in Net("A"), ret \in BOOLEAN :
          Len(delivered["A"]) < MaxLifeRecv /\ ReceiveLoop("A", d, ret)

SpecLife == Init /\ [][NextLife]_vars

----------------------------------------------------------------------------
(* Datagrams of other hosts: a UDP socket receives whatever is sent to its
   port, so A's receive loop also reads datagrams that no send_packet made *)

MaxForeign == 2       \* SpecForeign: datagrams of other hosts on the wire
MaxForeignRecv == 3   \* SpecForeign: datagrams processed by endpoint A

\* fragment_above=1: a payload of 2 bytes is read as a fragment without data
ForeignConfig == [SmallConfig EXCEPT !.fragment_above = 1]

\* a header "!HHI" with ack = 0 and ack_bits = 0
PlainHeader(seq) == PackH(seq) \o PackH(0) \o PackI({})

\* 3 bytes; a single packet; fragments 0 and 1 of 2; fragment 0 of 2 with
\* other bytes; fragment 0 of 3; fragment 0 of 0; fragment 2 of 2;
\* fragment 0 of 1 without data
ForeignDatagrams ==
    { <<1, 2, 3>>,
      PlainHeader(0) \o <<7>>,
      PlainHeader(1) \o <<0, 2, 5>>,
      PlainHeader(1) \o <<1, 2, 8>>,
      PlainHeader(1) \o <<0, 2, 6>>,
      PlainHeader(1) \o <<0, 3, 5>>,
      PlainHeader(1) \o <<0, 0, 5>>,
      PlainHeader(1) \o <<2, 2, 5>>,
      PlainHeader(2) \o <<0, 1>> }

\* another host sends datagram d to e's socket
Arrive(e, d) ==
    /\ d \notin foreign[e]
    /\ foreign' = [foreign EXCEPT ![e] = @ \cup {d}]
    /\ UNCHANGED <<libVars, simVars, sending, cfg, sequence, acks, sent_packets, received_packets, fragments,
                   rtt, running, loops, receive_thread, joining, last_update_time,
                   now, sends, calls, samples, delivered, sequence0, born>>

InitForeign == Constructed(ForeignConfig)

NextForeign ==
    \/ loops["A"] < MaxLoops /\ Start("A")
    \/ \E d \in ForeignDatagrams :
          Cardinality(foreign["A"]) < MaxForeign /\ Arrive("A", d)
    \/ \E d \in Net("A"), ret \in BOOLEAN :
          Len(delivered["A"]) < MaxForeignRecv /\ ReceiveLoop("A", d, ret)

SpecForeign == InitForeign /\ [][NextForeign]_vars

----------------------------------------------------------------------------
(* update(): both endpoints send, A's receive loop processes, the clock
   (in seconds) advances and the application calls A.update() *)

MaxGCSend == 1      \* SpecGC: send_packet calls of each endpoint
MaxGCRecv == 1      \* SpecGC: datagrams processed by endpoint A
MaxGCTime == 2      \* SpecGC: clock ticks

\* single; 2 fragments
GCPayloads == { <<7>>, <<1, 2, 3, 4, 5>> }

NextGC ==
    \/ loops["A"] < MaxLoops /\ Start("A")
    \/ \E data \in GCPayloads :
          Len(sends["A"]) < MaxGCSend /\ SendPacket("A", data)
    \/ \E data \in GCPayloads :
          Len(sends["B"]) < MaxGCSend /\ SendPacket("B", data)
    \/ \E d \in Net("A"), ret \in BOOLEAN :
          Len(delivered["A"]) < MaxGCRecv /\ ReceiveLoop("A", d, ret)
    \/ now < MaxGCTime /\ Tick
    \/ Update("A")

SpecGC == Init /\ [][NextGC]_vars

----------------------------------------------------------------------------
(* Round-trip times: A has sent packets that B accepted; B's datagrams carry
   the acks to A's receive loop while the clock advances *)

MaxRttSend == 1     \* SpecRtt: send_packet calls of endpoint B
MaxRttRecv == 2     \* SpecRtt: datagrams processed by endpoint A
MaxRttTime == 2     \* SpecRtt: clock ticks

\* rtt_smoothing_factor 0.1 (the default) and 0.5
SmoothingFactors == {1, 5}

\* the sequences B accepted (in order) of the 2 packets A has sent
RttPrehistories == { <<0>>, <<0, 1>> }

\* the state after construction, A.start(), 2 calls of
\* A.send_packet(WrapPayload) at time 0 and B's receive loop accepting pre
InitRtt ==
    \E a \in SmoothingFactors, pre \in RttPrehistories :
        LET c == [SmallConfig EXCEPT !.rtt_smoothing_factor = a]
        IN  /\ cfg = c
            /\ sequence = [e \in Endpoints |-> IF e = "A" THEN 2 ELSE 0]
            /\ acks = [e \in Endpoints |->
                  IF e = "B" THEN AcksAfter(<<>>, pre, c.ack_buffer_size) ELSE <<>>]
            /\ sent_packets = [e \in Endpoints |->
                  WindowAfterSends(c.sent_packets_buffer_size,
                                   IF e = "A" THEN 2 ELSE 0, WrapPayload)]
            /\ received_packets = [e \in Endpoints |->
                  WindowAfter([i \in 1..c.received_packets_buffer_size |-> NoPacket],
                              IF e = "B" THEN pre ELSE <<>>, WrapPayload)]
            /\ fragments = [e \in Endpoints |-> << >>]
            /\ rtt = [e \in Endpoints |-> <<0, 0>>]
            /\ running = [e \in Endpoints |-> TRUE]
            /\ loops = [e \in Endpoints |-> 1]
            /\ receive_thread = [e \in Endpoints |-> "alive"]
            /\ joining = [e \in Endpoints |-> FALSE]
            /\ last_update_time = [e \in Endpoints |-> 0]
            /\ now = 0
            /\ sends = [e \in Endpoints |-> <<>>]
            /\ calls = [e \in Endpoints |-> <<>>]
            /\ samples = [e \in Endpoints |-> <<>>]
            /\ delivered = [e \in Endpoints |-> <<>>]
            /\ sequence0 = sequence
            /\ born = [e \in Endpoints |-> << >>]
            /\ foreign = [e \in Endpoints |-> {}]
            /\ sending = [e \in Endpoints |-> NotSending]
            /\ SimConstructed
            /\ LibConstructed

NextRtt ==
    \/ Len(sends["B"]) < MaxRttSend /\ SendPacket("B", WrapPayload)
    \/ \E d \in Net("A"), ret \in BOOLEAN :
          Len(delivered["A"]) < MaxRttRecv /\ ReceiveLoop("A", d, ret)
    \/ now < MaxRttTime /\ Tick
    \/ Update("A")

SpecRtt == InitRtt /\ [][NextRtt]_vars

----------------------------------------------------------------------------
(* send_packet on the owner thread while the receive thread accepts packets *)

MaxRaceSend == 3    \* SpecRace: packets sent by the peer
MaxRaceRecv == 3    \* SpecRace: datagrams read by the receive thread
MaxRaceOwn == 2     \* SpecRace: send_packet calls of the owner thread

NextRace ==
    \/ loops["A"] < MaxLoops /\ Start("A")
    \/ Len(sends["B"]) < MaxRaceSend /\ SendPacket("B", WrapPayload)
    \/ \E d \in Net("A"), ret \in BOOLEAN :
          Len(delivered["A"]) < MaxRaceRecv /\ ReceiveLoop("A", d, ret)
    \/ sequence["A"] < MaxRaceOwn /\ SendSingleBegin("A", WrapPayload)
    \/ GetAckIter("A")
    \/ GetAckNext("A")
    \/ SendSingleStore("A")

SpecRace == Init /\ [][NextRace]_vars

----------------------------------------------------------------------------
(* The simulator: send and sendto on one socket, the worker not started *)

MaxLossCalls == 1   \* SpecLoss: send / sendto calls
MaxLossTime == 1    \* SpecLoss

\* the n-th call on a socket passes n bytes of value n
CallData(s) == Rep(Len(outcalls[s]) + 1, Len(outcalls[s]) + 1)

\* loss rates 0, 0.5 and 1; latencies of 0 and 1 ms; jitters of 0 and
\* DrawDen / 2 ms, which makes the jitter samples whole ticks
LossSettings ==
    [packet_loss_rate : {0, DrawDen \div 2, DrawDen}, base_latency : {0, 2},
     jitter : {0, DrawDen}]

\* the delay argument of sendto: 0 (the default) or 1.5 ms
Delays == {0, 3}

NextLoss ==
    \/ \E st \in LossSettings :
          /\ Len(outcalls["client"]) = 0 /\ settings["client"] = DefaultSettings
          /\ Configure("client", st)
    \/ \E u \in Draws, k \in Draws :
          /\ Len(outcalls["client"]) < MaxLossCalls
          /\ Send("client", CallData("client"), u, k)
    \/ \E u \in Draws, k \in Draws, delay \in Delays :
          /\ Len(outcalls["client"]) < MaxLossCalls
          /\ Sendto("client", CallData("client"), u, k, delay)
    \/ monotonic < MaxLossTime /\ SimTick

SpecLoss == Init /\ [][NextLoss]_vars

----------------------------------------------------------------------------
(* The simulator: sendto on one socket with its worker running, no loss *)

MaxSchedCalls == 2  \* SpecSched: sendto calls
MaxSchedIter == 2   \* SpecSched: loop iterations of the worker
MaxSchedTime == 5   \* SpecSched

\* the least and the greatest value of random.random()
SchedDraws == {0, DrawDen - 1}

\* the delay argument of sendto: 0, 1.5 ms or 2.5 ms
SchedDelays == {0, 3, 5}

NextSched ==
    \/ StartSender("client")
    \/ \E u \in SchedDraws, delay \in SchedDelays :
          /\ Len(outcalls["client"]) < MaxSchedCalls
          /\ Sendto("client", CallData("client"), u, 0, delay)
    \/ stop_check_counter["client"] < MaxSchedIter /\ WorkerDrain("client")
    \/ WorkerPop("client")
    \/ monotonic < MaxSchedTime /\ SimTick

SpecSched == Init /\ [][NextSched]_vars

----------------------------------------------------------------------------
(* The simulator: the worker of one socket is stopped; the datagrams are    *)
(* passed to sendto at time 0, before or while the worker runs              *)

MaxStopCalls == 1   \* SpecStop: sendto calls
MaxStopIter == 101  \* SpecStop: loop iterations of the worker
MaxStopTime == 3    \* SpecStop

\* the delay argument of sendto: 1.5 ms
StopDelays == {3}

NextStop ==
    \/ StartSender("client")
    \/ \E delay \in StopDelays :
          /\ Len(outcalls["client"]) < MaxStopCalls
          /\ monotonic = 0
          /\ Sendto("client", CallData("client"), DrawDen - 1, 0, delay)
    \/ stop_check_counter["client"] < MaxStopIter /\ WorkerDrain("client")
    \/ WorkerPop("client")
    \/ ~stop_event["client"] /\ SenderStop("client")
    \/ monotonic < MaxStopTime /\ SimTick

SpecStop == Init /\ [][NextStop]_vars

----------------------------------------------------------------------------
(* The simulator: two sockets acquired with get_real_world_sockets.  The    *)
(* worker that the finally clause is joining runs until it exits; the other *)
(* worker, an independent process, gets through few iterations meanwhile.   *)

MaxScopeIter == 2   \* SpecScope: loop iterations of a worker nobody waits for

NextScope ==
    \/ \E start_scheduler \in BOOLEAN : ScopeEnter(start_scheduler)
    \/ \E s \in Sockets : scope.phase = "body" /\ StartSender(s)
    \/ \E exception \in BOOLEAN : ScopeLeave(exception)
    \/ ScopeStop
    \/ \E cleaned \in BOOLEAN : ScopeJoin(cleaned)
    \/ \E s \in Sockets :
          /\ \/ stop_check_counter[s] < MaxScopeIter
             \/ scope.phase = "join" /\ s = SocketOrder[scope.at]
          /\ WorkerDrain(s)
    \/ \E s \in Sockets : WorkerPop(s)

SpecScope == Init /\ [][NextScope]_vars

----------------------------------------------------------------------------
(* SafeProcess: one process object, its child and the calls of the parent *)

MaxProcCalls == 4   \* SpecProc: calls of the parent after the constructor

NextProc ==
    \/ \E use_stop_event \in BOOLEAN, target \in Targets :
          Create(use_stop_event, target)
    \/ ProcessStart
    \/ Run
    \/ Len(p_log) < MaxProcCalls /\ ProcessStop
    \/ Len(p_log) < MaxProcCalls /\ ProcessKill
    \/ Len(p_log) < MaxProcCalls /\ ProcessJoin
    \/ Len(p_log) < MaxProcCalls /\ GetResult
    \/ Len(p_log) < MaxProcCalls /\ GetException

SpecProc == Init /\ [][NextProc]_vars

----------------------------------------------------------------------------
(* CircularBuffer: one buffer and a sequence of push and pop *)

MaxBufSize == 3     \* SpecBuf: the size of the buffer
MaxBufCalls == 5    \* SpecBuf: calls of push and pop

NextBuf ==
    \/ \E size \in 1..MaxBufSize : NewBuffer(size)
    \/ \E item \in Items : Len(cb_log) < MaxBufCalls /\ DoPush(item)
    \/ Len(cb_log) < MaxBufCalls /\ DoPop

SpecBuf == Init /\ [][NextBuf]_vars

----------------------------------------------------------------------------
(* The packet codec: one packet is created, packed, possibly damaged, and   *)
(* given to from_bits                                                        *)

MaxPayloadLen == 2  \* SpecCodec: bytes of payload
MaxEdits == 2       \* SpecCodec: changes of the bits before from_bits

\* the bytes of the payloads: 0x00, "R" and 0xFF
PayloadBytes == {0, 82, 255}

RECURSIVE BytesUpTo(_)
BytesUpTo(n) ==
    IF n = 0 THEN {<<>>}
    ELSE LET shorter == BytesUpTo(n - 1)
         IN  shorter \cup {Append(p, b) : p \in {q \in shorter : Len(q) = n - 1},
                                          b \in PayloadBytes}

\* the changes: a bit of the checksum, of the payload or of the trailer
\* inverted, the type cleared, one or two bytes lost, 1 or 7 bits of padding
Edits ==
    ({"flip"} \X {0, 31, 34, Len(pk.bits) - 1}) \cup ({"type"} \X {0})
    \cup ({"cut"} \X {8, 16}) \cup ({"pad"} \X {1, 7})

NextCodec ==
    \/ \E packet_type \in Types, payload \in BytesUpTo(MaxPayloadLen) :
          CodecCreate(packet_type, payload)
    \/ CodecPack
    \/ \E edit \in Edits : Len(pk.edits) < MaxEdits /\ CodecEdit(edit[1], edit[2])
    \/ CodecFromBits

SpecCodec == Init /\ [][NextCodec]_vars

----------------------------------------------------------------------------
(* The empty flag and ensure_empty_send_queue: a producer that sends and     *)
(* waits, and the worker                                                     *)

MaxEnsureCalls == 2 \* SpecEnsure: sendto calls
MaxEnsureIter == 3  \* SpecEnsure: loop iterations of the worker
MaxEnsureTime == 3  \* SpecEnsure: clock ticks besides the sleeps
MaxEnsureSleeps == 4 \* SpecEnsure: sleeps of ensure_empty_send_queue

NextEnsure ==
    \/ StartSender("client")
    \/ \E delay \in SchedDelays :
          /\ Len(outcalls["client"]) < MaxEnsureCalls
          /\ ensure["client"].pc # "poll"
          /\ Sendto("client", CallData("client"), DrawDen - 1, 0, delay)
    \/ stop_check_counter["client"] < MaxEnsureIter /\ WorkerDrain("client")
    \/ WorkerPop("client")
    \/ monotonic < MaxEnsureTime /\ SimTick
    \/ EnsureCall("client")
    \/ monotonic < MaxEnsureSleeps * ENSURE_SLEEP /\ EnsurePoll("client")

SpecEnsure == Init /\ [][NextEnsure]_vars

----------------------------------------------------------------------------
(* The default configuration: A sends to B over a channel that neither      *)
(* loses nor duplicates a datagram                                           *)

MaxDefaultSend == 1 \* SpecDefault: send_packet calls of endpoint A
MaxDefaultTime == 1 \* SpecDefault: clock ticks

\* the defaults of ReliableEndpoint.__init__; rtt_smoothing_factor is 0.1
DefaultConfig ==
    [max_packet_size |-> 1200, fragment_above |-> 1000, max_fragments |-> 16,
     fragment_size |-> 500, ack_buffer_size |-> 32,
     sent_packets_buffer_size |-> 256, received_packets_buffer_size |-> 256,
     rtt_smoothing_factor |-> 1]

\* payloads of 1, 1000, 1001, 1193 and 1201 bytes; the one that begins with
\* 0, 1 reads as fragment 0 of 1
DefaultPayloads ==
    { <<7>>, Rep(65, 1000), Rep(65, 1001), <<0, 1>> \o Rep(65, 999),
      <<0, 1>> \o Rep(65, 1191), Rep(66, 1201) }

InitDefault == Constructed(DefaultConfig)

\* the datagrams of the peer that e's socket has not returned yet
Unread(e) ==
    { d \in Net(e) :
        \A i \in 1..Len(delivered[e]) :
            delivered[e][i] # Recvfrom(d, cfg.max_packet_size) }

NextDefault ==
    \/ loops["B"] < MaxLoops /\ Start("B")
    \/ \E data \in DefaultPayloads :
          Len(sends["A"]) < MaxDefaultSend /\ SendPacket("A", data)
    \/ \E d \in Unread("B"), ret \in BOOLEAN : ReceiveLoopRecvfrom("B", d, ret)
    \/ now < MaxDefaultTime /\ Tick

SpecDefault == InitDefault /\ [][NextDefault]_vars

----------------------------------------------------------------------------
(* Stale acks: A has sent packets before, and B still remembers what it     *)
(* accepted of them                                                          *)

MaxStaleSend == 2   \* SpecStale: send_packet calls of each endpoint
MaxStaleRecv == 1   \* SpecStale: datagrams processed by each endpoint
MaxStaleTime == 1   \* SpecStale: clock ticks

\* how many packets A has sent so far and which of them B accepted (in
\* order); all the others were lost or rejected by B's callback
StalePrehistories ==
    { [sent |-> 0, accepted |-> <<>>],
      [sent |-> 65536, accepted |-> <<0>>] }

\* the state after construction, start() of both, pre.sent calls of
\* A.send_packet(WrapPayload) at time 0 and B's receive loop accepting
\* pre.accepted
InitStale ==
    \E pre \in StalePrehistories :
        /\ cfg = SmallConfig
        /\ sequence = [e \in Endpoints |->
              IF e = "A" THEN pre.sent % SEQUENCE_MODULO ELSE 0]
        /\ acks = [e \in Endpoints |->
              IF e = "B" THEN AcksAfter(<<>>, pre.accepted, SmallConfig.ack_buffer_size)
              ELSE <<>>]
        /\ sent_packets = [e \in Endpoints |->
              WindowAfterSends(SmallConfig.sent_packets_buffer_size,
                               IF e = "A" THEN pre.sent ELSE 0, WrapPayload)]
        /\ received_packets = [e \in Endpoints |->
              WindowAfter([i \in 1..SmallConfig.received_packets_buffer_size |-> NoPacket],
                          IF e = "B" THEN pre.accepted ELSE <<>>, WrapPayload)]
        /\ fragments = [e \in Endpoints |-> << >>]
        /\ rtt = [e \in Endpoints |-> <<0, 0>>]
        /\ running = [e \in Endpoints |-> TRUE]
        /\ loops = [e \in Endpoints |-> 1]
        /\ receive_thread = [e \in Endpoints |-> "alive"]
        /\ joining = [e \in Endpoints |-> FALSE]
        /\ last_update_time = [e \in Endpoints |-> 0]
        /\ now = 0
        /\ sends = [e \in Endpoints |-> <<>>]
        /\ calls = [e \in Endpoints |-> <<>>]
        /\ samples = [e \in Endpoints |-> <<>>]
        /\ delivered = [e \in Endpoints |-> <<>>]
        /\ sequence0 = sequence
        /\ born = [e \in Endpoints |-> << >>]
        /\ foreign = [e \in Endpoints |-> {}]
        /\ sending = [e \in Endpoints |-> NotSending]
        /\ SimConstructed
        /\ LibConstructed

NextStale ==
    \/ \E e \in Endpoints :
          Len(sends[e]) < MaxStaleSend /\ SendPacket(e, WrapPayload)
    \/ \E e \in Endpoints : \E d \in Net(e), ret \in BOOLEAN :
          Len(delivered[e]) < MaxStaleRecv /\ ReceiveLoop(e, d, ret)
    \/ now < MaxStaleTime /\ Tick

SpecStale == InitStale /\ [][NextStale]_vars

----------------------------------------------------------------------------
(* The owner thread of A sends statement by statement while the receive     *)
(* thread of A processes the datagrams of B, which carry B's acks           *)

MaxOrderOwn == 2    \* SpecOrder: send_packet calls of A's owner thread
MaxOrderSend == 2   \* SpecOrder: send_packet calls of endpoint B
MaxOrderRecv == 1   \* SpecOrder: datagrams processed by each endpoint
MaxOrderTime == 1   \* SpecOrder: clock ticks

NextOrder ==
    \/ \E e \in Endpoints : loops[e] < MaxLoops /\ Start(e)
    \/ sequence["A"] < MaxOrderOwn /\ SendSingleBegin("A", WrapPayload)
    \/ GetAckIter("A")
    \/ GetAckNext("A")
    \/ SendSingleStore("A")
    \/ Len(sends["B"]) < MaxOrderSend /\ SendPacket("B", WrapPayload)
    \/ \E e \in Endpoints : \E d \in Net(e), ret \in BOOLEAN :
          Len(delivered[e]) < MaxOrderRecv /\ ReceiveLoop(e, d, ret)
    \/ now < MaxOrderTime /\ Tick

SpecOrder == Init /\ [][NextOrder]_vars

----------------------------------------------------------------------------
(* Properties *)

Last(s) == s[Len(s)]

CeilDiv(a, b) == -((-a) \div b)

\* the payload bytes of a datagram in the single wire form
Rest(d) == Drop(d, HEADER_SIZE)

(* C1: the k-th call of send_packet (k = 0, 1, 2, ...; single and fragmented
   alike) is assigned sequence (s0 + k) mod 65536, s0 being the counter before
   the first call; no two consecutive calls get the same sequence; and from
   s0 = 65530 ten calls get 65530, ..., 65535, 0, 1, 2, 3. *)
C1_SequenceAllocation ==
    \A e \in Endpoints :
        /\ \A k \in 1..Len(sends[e]) :
              /\ sends[e][k].sequence = (sequence0[e] + (k - 1)) % 65536
              /\ k > 1 => sends[e][k].sequence # sends[e][k - 1].sequence
        /\ (sequence0[e] = 65530 /\ Len(sends[e]) = 10) =>
              [k \in 1..10 |-> sends[e][k].sequence] =
                 <<65530, 65531, 65532, 65533, 65534, 65535, 0, 1, 2, 3>>

C1_Witness ==
    /\ sequence0["A"] = 65530
    /\ Len(sends["A"]) = 10
    /\ Last(sends["A"]).sequence = 3
    /\ \E k \in 1..10 : Len(sends["A"][k].datagrams) > 1

(* C5: every datagram sent in the single (non-fragmented) wire form carries a
   payload of length > 0 and <= fragment_above. *)
C5_SinglePayloadBounds ==
    \A e \in Endpoints : \A k \in 1..Len(sends[e]) :
        LET s == sends[e][k]
        IN  (Len(s.datagrams) = 1 /\ Rest(s.datagrams[1]) = s.data) =>
               (Len(s.data) > 0 /\ Len(s.data) <= cfg.fragment_above)

\* the sequence of the last write to a slot of e's sent window, -1 if none:
\* the calls of send_packet on record, and before them those for 0..s0-1
LastWriteAt(e, slot) ==
    LET size == cfg.sent_packets_buffer_size
        logged == { k \in 1..Len(sends[e]) :
                      ~sends[e][k].raised /\ sends[e][k].sequence % size = slot }
        newest == CHOOSE k \in logged : \A j \in logged : j <= k
        s0 == sequence0[e]
    IN  IF logged # {} THEN sends[e][newest].sequence
        ELSE IF s0 - 1 < slot THEN -1
        ELSE (s0 - 1) - ((s0 - 1 - slot) % size)

ProbeSpan == 8

\* the sequences whose lookup is examined: around the counter, and the ends
ProbeSeqs(e) ==
    { (sequence[e] + d) % 65536 : d \in (-ProbeSpan)..ProbeSpan } \cup {0, 65535}

(* C8: every slot i of the sent window is empty or holds a record whose
   sequence mod C is i, and the lookup of a sequence s at ack time finds a
   record (the one of s) iff the last write to slot s mod C used s. *)
C8_WindowLookup ==
    \A e \in Endpoints :
        LET window == sent_packets[e]
            size == cfg.sent_packets_buffer_size
        IN  /\ Len(window) = size
            /\ \A i \in 1..size :
                  window[i].present => window[i].sequence % size = i - 1
            /\ \A s \in ProbeSeqs(e) :
                  /\ Lookup(window, s).present <=> LastWriteAt(e, s % size) = s
                  /\ Lookup(window, s).present => Lookup(window, s).sequence = s

\* an evicted record is not found though its slot is occupied, a never-sent
\* sequence is not found though its slot is occupied, the newest is found
C8_Witness ==
    LET window == sent_packets["A"]
        size == cfg.sent_packets_buffer_size
        first == sends["A"][1].sequence
    IN  /\ Len(sends["A"]) > size
        /\ sequence["A"] < sequence0["A"]
        /\ window[(first % size) + 1].present
        /\ ~Lookup(window, first).present
        /\ window[(sequence["A"] % size) + 1].present
        /\ ~Lookup(window, sequence["A"]).present
        /\ Lookup(window, Last(sends["A"]).sequence).present

\* what C10 says of the k-th recorded call of e.send_packet
FragmentedShape(e, k) ==
    LET s == sends[e][k]
        size == cfg.fragment_size
        n == CeilDiv(Len(s.data), size)
        window == sent_packets[e]
    IN  /\ Len(s.datagrams) = n
        /\ \A i \in 1..Len(s.datagrams) :
              LET d == s.datagrams[i]
              IN  /\ Len(d) >= HEADER_SIZE + FRAGMENT_HEADER_SIZE
                  /\ UnpackH(Slice(d, 0, 2)) = s.sequence
                  /\ d[9] = i - 1
                  /\ d[10] = n
                  /\ Drop(d, 10) = Slice(s.data, (i - 1) * size, Min(i * size, Len(s.data)))
                  /\ i < n => Len(Drop(d, 10)) = size
        /\ k < Len(sends[e]) => sends[e][k + 1].sequence = (s.sequence + 1) % 65536
        /\ k = Len(sends[e]) =>
              /\ sequence[e] = (s.sequence + 1) % 65536
              /\ Cardinality({ i \in 1..Len(window) :
                    window[i].present /\ window[i].sequence = s.sequence }) = 1
              /\ Lookup(window, s.sequence).data = s.data

(* C10 as stated: for every payload with len > max_packet_size, send emits
   exactly ceil(len / fragment_size) datagrams, the i-th with fragment_id i,
   total_fragments the count and bytes [i*fragment_size, (i+1)*fragment_size)
   of the payload, all under one sequence; the counter advances by 1 and one
   record with the whole payload is in the sent window under that sequence. *)
C10_FragmentedSendShape ==
    \A e \in Endpoints : \A k \in 1..Len(sends[e]) :
        Len(sends[e][k].data) > cfg.max_packet_size => FragmentedShape(e, k)

(* C10 amended: the same, for every payload with len > max_packet_size whose
   fragment count ceil(len / fragment_size) fits the one-byte total_fragments
   field (is at most 255). *)
C10_FragmentedSendShapeFits ==
    \A e \in Endpoints : \A k \in 1..Len(sends[e]) :
        ( /\ Len(sends[e][k].data) > cfg.max_packet_size
          /\ CeilDiv(Len(sends[e][k].data), cfg.fragment_size) <= 255 )
        => FragmentedShape(e, k)

C10_Witness ==
    /\ Len(sends["A"]) = 3
    /\ Len(sends["A"][1].datagrams) = 2
    /\ Len(sends["A"][2].datagrams) = 1
    /\ Len(sends["A"][3].datagrams) = 255
    /\ Len(Last(sends["A"][1].datagrams)) = 12

Range(s) == { s[i] : i \in 1..Len(s) }

(* C2: _get_ack_data returns (0, 0) for an empty ack history, and otherwise
   latest_ack = the entry appended last and ack_bits with bit d set, for d in
   0..31, iff (latest_ack - d) mod 65536 is in the ack history, whatever the
   configured ack_buffer_size. *)
C2_AckEncoder ==
    \A e \in Endpoints :
        LET r == GetAckData(acks[e])
        IN  IF Len(acks[e]) = 0 THEN r = <<0, {}>>
            ELSE /\ r[1] = Last(acks[e])
                 /\ \A d \in 0..31 :
                       d \in r[2] <=> ((r[1] - d) % 65536) \in Range(acks[e])

\* the calls of e's callback for a sequence
CallsFor(e, seq) == { j \in 1..Len(calls[e]) : calls[e][j].sequence = seq }

(* C3: when all fragments that send_packet produced for a payload have been
   fed to the receiver, in any order and with any duplicates (also after the
   assembly completed), the callback has been invoked exactly once for that
   sequence, with the original payload; and never more than once. *)
C3_FragmentRoundTrip ==
    \A e \in Endpoints : \A k \in 1..Len(sends[Peer(e)]) :
        LET s == sends[Peer(e)][k]
        IN  (IsFragmentedSend(s.data, cfg) /\ ~s.raised) =>
              /\ Cardinality(CallsFor(e, s.sequence)) <= 1
              /\ Range(s.datagrams) \subseteq Range(delivered[e]) =>
                    /\ Cardinality(CallsFor(e, s.sequence)) = 1
                    /\ \A j \in CallsFor(e, s.sequence) : calls[e][j].data = s.data

(* C4: scenario S2 (fragment_size 100, max_packet_size 1200, fragment_above
   90): sending the 350-byte payload puts exactly 4 fragment datagrams of one
   sequence on the wire, and the receiver that got them has invoked the
   callback exactly once, with the 350 bytes. *)
C4_ScenarioS2 ==
    \A k \in 1..Len(sends["A"]) :
        LET s == sends["A"][k]
        IN  (cfg = S2Config /\ s.data = S2Payload) =>
              /\ Len(s.datagrams) = 4
              /\ \A i \in 1..Len(s.datagrams) :
                    UnpackH(Slice(s.datagrams[i], 0, 2)) = s.sequence
              /\ Range(s.datagrams) \subseteq Range(delivered["B"]) =>
                    /\ Cardinality(CallsFor("B", s.sequence)) = 1
                    /\ \A j \in CallsFor("B", s.sequence) : calls["B"][j].data = S2Payload

(* C6: in a step in which the callback is invoked for sequence s: if it
   returns true, a record for s is in the received window at slot s mod C
   afterwards and s is the newest entry of the ack history; if it returns
   false, the received window and the ack history are unchanged. *)
C6_CallbackContract ==
    [][ \A e \in Endpoints :
          Len(calls'[e]) = Len(calls[e]) + 1 =>
            LET c == Last(calls'[e])
                slot == (c.sequence % cfg.received_packets_buffer_size) + 1
            IN  IF c.ret
                THEN /\ received_packets'[e][slot].present
                     /\ received_packets'[e][slot].sequence = c.sequence
                     /\ received_packets'[e][slot].data = c.data
                     /\ \A i \in 1..Len(received_packets[e]) :
                           i # slot => received_packets'[e][i] = received_packets[e][i]
                     /\ Len(acks'[e]) > 0
                     /\ Last(acks'[e]) = c.sequence
                ELSE /\ received_packets'[e] = received_packets[e]
                     /\ acks'[e] = acks[e]
      ]_vars

C6_Witness ==
    \E j, k \in 1..Len(calls["A"]) :
        /\ j < k
        /\ ~calls["A"][j].ret
        /\ calls["A"][k].ret
        /\ acks["A"] = <<calls["A"][k].sequence>>
        /\ Lookup(received_packets["A"], calls["A"][k].sequence).data = calls["A"][k].data

(* C7: each sent record contributes at most one RTT sample, however often
   its ack is repeated. *)
C7_AtMostOneSample ==
    \A e \in Endpoints : \A i, j \in 1..Len(samples[e]) :
        i # j => samples[e][i].sequence # samples[e][j].sequence

\* the sequences e's callback accepted, in order
RECURSIVE AcceptedOf(_)
AcceptedOf(log) ==
    IF Len(log) = 0 THEN <<>>
    ELSE (IF Head(log).ret THEN <<Head(log).sequence>> ELSE <<>>) \o AcceptedOf(Tail(log))

LastN(s, n) == [i \in 1..n |-> s[Len(s) - n + i]]

(* C9: the ack history never holds more than ack_buffer_size entries, and it
   is the last min(n, ack_buffer_size) of the n accepted sequences, in the
   order of acceptance (the oldest is evicted first). *)
C9_AckHistoryBounded ==
    \A e \in Endpoints :
        LET accepted == AcceptedOf(calls[e])
        IN  /\ Len(acks[e]) <= cfg.ack_buffer_size
            /\ acks[e] = LastN(accepted, Min(Len(accepted), cfg.ack_buffer_size))

C9_Witness ==
    LET accepted == AcceptedOf(calls["A"])
    IN  /\ Len(accepted) > cfg.ack_buffer_size
        /\ Len(acks["A"]) = cfg.ack_buffer_size
        /\ accepted[1] \notin Range(acks["A"])

(* C11: a send_packet call whose payload needs more than max_fragments
   fragments (ceil(len / fragment_size) > max_fragments) raises to the caller
   and hands no datagram of that payload to the socket. *)
C11_PayloadTooLarge ==
    \A e \in Endpoints : \A k \in 1..Len(sends[e]) :
        LET s == sends[e][k]
        IN  CeilDiv(Len(s.data), cfg.fragment_size) > cfg.max_fragments =>
               (s.raised /\ s.datagrams = <<>>)

(* C12: while an endpoint is not running (before start() and after stop()),
   a send_packet call allocates no sequence and hands no datagram to the
   socket, and a datagram that is processed changes nothing of the endpoint
   (sequence, ack history, windows, fragments, rtt). *)
C12_NotRunningRejected ==
    [][ \A e \in Endpoints :
          ~running[e] =>
            /\ Len(sends'[e]) > Len(sends[e]) =>
                  /\ sequence'[e] = sequence[e]
                  /\ Last(sends'[e]).datagrams = <<>>
            /\ Len(delivered'[e]) > Len(delivered[e]) =>
                  /\ sequence'[e] = sequence[e]
                  /\ acks'[e] = acks[e]
                  /\ sent_packets'[e] = sent_packets[e]
                  /\ received_packets'[e] = received_packets[e]
                  /\ fragments'[e] = fragments[e]
                  /\ rtt'[e] = rtt[e]
      ]_vars

\* e's receive loop processes one more datagram in this step
Processes(e) == Len(delivered'[e]) = Len(delivered[e]) + 1

(* C13: when the receive loop processes a datagram of fewer than 8 bytes,
   the datagram is discarded: the sent and received windows, the ack history
   and the fragments table are unchanged, and the receive loop stays alive. *)
C13_MalformedHeaderRecovered ==
    [][ \A e \in Endpoints :
          (Processes(e) /\ Len(Last(delivered'[e])) < 8) =>
            /\ sent_packets'[e] = sent_packets[e]
            /\ received_packets'[e] = received_packets[e]
            /\ acks'[e] = acks[e]
            /\ fragments'[e] = fragments[e]
            /\ loops'[e] = loops[e]
      ]_vars

\* the datagram e's receive loop processes in this step, read as a fragment
\* (it has a header, more than fragment_above bytes after it and a fragment
\* header): its sequence, fragment_id, total_fragments and data
IsFragment(d) ==
    /\ Len(d) >= HEADER_SIZE + FRAGMENT_HEADER_SIZE
    /\ Len(d) - HEADER_SIZE > cfg.fragment_above

FragSeq(d) == UnpackH(Slice(d, 0, 2))

FragId(d) == d[9]

FragTotal(d) == d[10]

FragData(d) == Drop(d, HEADER_SIZE + FRAGMENT_HEADER_SIZE)

\* the fragment header of d is not valid for e's fragments table
BadFragment(e, d) ==
    \/ FragTotal(d) = 0
    \/ FragId(d) >= FragTotal(d)
    \/ /\ FragSeq(d) \in DOMAIN fragments[e]
       /\ FragTotal(d) # Len(fragments[e][FragSeq(d)])

(* C14: when the receive loop processes a fragment with total_fragments = 0,
   with fragment_id >= total_fragments, or with a total_fragments other than
   the length of the assembly recorded for its sequence, the assembly of that
   sequence is dropped (it is not in the fragments table afterwards), the
   other assemblies are unchanged, and the receive loop stays alive. *)
C14_FragmentHeaderValidated ==
    [][ \A e \in Endpoints :
          ( /\ Processes(e)
            /\ IsFragment(Last(delivered'[e]))
            /\ BadFragment(e, Last(delivered'[e])) ) =>
            LET d == Last(delivered'[e])
            IN  /\ FragSeq(d) \notin DOMAIN fragments'[e]
                /\ \A s \in DOMAIN fragments[e] \ {FragSeq(d)} :
                      /\ s \in DOMAIN fragments'[e]
                      /\ fragments'[e][s] = fragments[e][s]
                /\ loops'[e] = loops[e]
      ]_vars

\* the part d would be recorded in is already stored
IsDuplicate(e, d) ==
    /\ FragSeq(d) \in DOMAIN fragments[e]
    /\ FragId(d) < Len(fragments[e][FragSeq(d)])
    /\ fragments[e][FragSeq(d)][FragId(d) + 1].present

(* C15: when the receive loop processes a fragment whose part (same sequence
   and fragment_id) is already stored in the assembly: with identical bytes
   the fragments table is unchanged; with differing bytes the stored part is
   not overwritten. *)
C15_DuplicateFragments ==
    [][ \A e \in Endpoints :
          ( /\ Processes(e)
            /\ IsFragment(Last(delivered'[e]))
            /\ IsDuplicate(e, Last(delivered'[e])) ) =>
            LET d == Last(delivered'[e])
                stored == fragments[e][FragSeq(d)][FragId(d) + 1]
            IN  IF stored.bytes = FragData(d)
                THEN fragments'[e] = fragments[e]
                ELSE FragSeq(d) \in DOMAIN fragments'[e] =>
                        fragments'[e][FragSeq(d)][FragId(d) + 1] = stored
      ]_vars

\* every part of an assembly has been received
AllPresent(parts) == \A i \in 1..Len(parts) : parts[i].present

(* C16: no assembly in the fragments table has all of its parts present (an
   assembly of which every fragment_id has been received has completed), and
   in the step in which a fragment completes an assembly and the callback is
   invoked with the payload, the assembly is removed from the table. *)
C16_AssemblyInvariant ==
    /\ [](\A e \in Endpoints : \A s \in DOMAIN fragments[e] :
             ~AllPresent(fragments[e][s]))
    /\ [][ \A e \in Endpoints :
             ( /\ Processes(e)
               /\ IsFragment(Last(delivered'[e]))
               /\ Len(calls'[e]) > Len(calls[e]) ) =>
                 FragSeq(Last(delivered'[e])) \notin DOMAIN fragments'[e]
         ]_vars

\* age (in seconds) is more than max(4 * rtt, 1 second), rtt being r
OlderThanLimit(age, r) == age > 1 /\ age * Pow10(r[2]) > 4 * r[1]

(* C17: when update() has run at the current time, the fragments table holds
   no assembly, and the sent and received windows hold no record, that is
   older than max(4 * rtt, 1 second). *)
C17_GarbageCollected ==
    \A e \in Endpoints :
        (now > 0 /\ last_update_time[e] = now) =>
            /\ \A s \in DOMAIN fragments[e] :
                  ~OlderThanLimit(now - born[e][s], rtt[e])
            /\ \A i \in 1..Len(sent_packets[e]) :
                  sent_packets[e][i].present =>
                     ~OlderThanLimit(now - sent_packets[e][i].send_time, rtt[e])
            /\ \A i \in 1..Len(received_packets[e]) :
                  received_packets[e][i].present =>
                     ~OlderThanLimit(now - received_packets[e][i].send_time, rtt[e])

RECURSIVE Pow(_, _)
Pow(b, n) == IF n = 0 THEN 1 ELSE b * Pow(b, n - 1)

\* the numerator over 10^n of the iterated exponential average of the
\* samples r[1..n] with factor a / 10, started at 0:
\* sum over k of (a/10) * (1 - a/10)^(n-k) * r[k]
RECURSIVE EmaNumerator(_, _, _)
EmaNumerator(r, a, k) ==
    IF k = 0 THEN 0
    ELSE a * Pow(10 - a, Len(r) - k) * r[k].sample * Pow(10, k - 1)
         + EmaNumerator(r, a, k - 1)

(* C18: rtt is 0 at construction and always equals the iterated exponential
   average rtt_k = rtt_(k-1) * (1 - alpha) + r_k * alpha of the samples that
   ack processing has fed so far, alpha being rtt_smoothing_factor; it is
   > 0 once a first sample > 0 has been processed; and only a step of the
   receive loop that feeds a sample changes it. *)
C18_RttSmoothing ==
    /\ [](\A e \in Endpoints :
             /\ Len(samples[e]) = 0 => rtt[e] = <<0, 0>>
             /\ rtt[e] = Normal(<<EmaNumerator(samples[e], cfg.rtt_smoothing_factor,
                                               Len(samples[e])),
                                  Len(samples[e])>>)
             /\ (Len(samples[e]) > 0 /\ samples[e][1].sample > 0) => rtt[e][1] > 0)
    /\ [][ \A e \in Endpoints :
             rtt'[e] # rtt[e] =>
                (Processes(e) /\ Len(samples'[e]) > Len(samples[e]))
         ]_vars

\* samples 1 s and 2 s with factor 0.1: rtt = 0.1, then 0.29
C18_Witness ==
    /\ cfg.rtt_smoothing_factor = 1
    /\ Len(samples["A"]) = 2
    /\ samples["A"][1].sample = 1
    /\ samples["A"][2].sample = 2
    /\ rtt["A"] = <<29, 2>>

\* e has been started before and is not running: it is Stopped
Stopped(e) == ~running[e] /\ receive_thread[e] # "None"

(* C19: an endpoint becomes running only by start() (the step that creates
   a receive loop); a Stopped endpoint (one that was started and is no longer
   running) never becomes running again; and at most one receive loop of an
   endpoint is alive at any time. *)
C19_Lifecycle ==
    [][ \A e \in Endpoints :
          /\ (~running[e] /\ running'[e]) => loops'[e] = loops[e] + 1
          /\ Stopped(e) => ~running'[e]
          /\ loops'[e] <= 1
      ]_vars

\* a call of stop() on e returns in this step: from the join, or at once
StopReturns(e) ==
    \/ joining[e] /\ ~joining'[e]
    \/ running[e] /\ ~running'[e] /\ ~joining'[e]

(* C20: when a call of stop() returns -- the first one, a repeated one, or
   one without a prior start() -- running is false and no receive loop of
   the endpoint is alive; and in every state in which a call of stop() would
   return at once without changing anything, no receive loop is alive. *)
C20_StopTerminates ==
    /\ [][ \A e \in Endpoints :
             StopReturns(e) => (~running'[e] /\ loops'[e] = 0) ]_vars
    /\ [](\A e \in Endpoints :
             (~running[e] /\ ~joining[e] /\ receive_thread[e] # "alive") =>
                 loops[e] = 0)

\* the ack history after the first n acceptances
HistoryAt(e, n) ==
    LET accepted == Take(AcceptedOf(calls[e]), n)
    IN  LastN(accepted, Min(n, cfg.ack_buffer_size))

\* (ack, ack_bits) is what the ack history h encodes
SnapshotOf(h, ack, ack_bits) ==
    IF Len(h) = 0 THEN ack = 0 /\ ack_bits = {}
    ELSE /\ ack = Last(h)
         /\ \A i \in 0..31 : i \in ack_bits <=> ((ack - i) % 65536) \in Range(h)

(* C21: under every interleaving of send_packet on the owner thread with
   datagram processing on the receive thread, the (latest_ack, ack_bits) pair
   of each outbound header is a snapshot of the ack history at a single
   instant: bit i is set iff (latest_ack - i) mod 65536 was in the history at
   that instant. *)
C21_ConsistentSnapshot ==
    \A e \in Endpoints : \A k \in 1..Len(sends[e]) :
        \A j \in 1..Len(sends[e][k].datagrams) :
            LET d == sends[e][k].datagrams[j]
            IN  \E n \in 0..Len(AcceptedOf(calls[e])) :
                    SnapshotOf(HistoryAt(e, n), UnpackH(Slice(d, 2, 4)),
                               UnpackI(Slice(d, 4, 8)))

\* the transmissions of the bytes data on socket s
OnWire(s, data) == { i \in 1..Len(wire[s]) : wire[s][i].data = data }

\* the tasks for the bytes data that wait in the inbound queue of s
InQueue(s, data) == { i \in 1..Len(queue[s]) : queue[s][i].data = data }

\* the tasks for the bytes data in the heap of s
InHeap(s, data) == { task \in heap[s] : task.data = data }

\* the datagram was handed to the socket or to the worker
NotDropped(s, data) ==
    OnWire(s, data) # {} \/ InQueue(s, data) # {} \/ InHeap(s, data) # {}

(* C22: for every outbound datagram, through send as well as through sendto,
   the datagram is dropped (handed neither to the socket nor to the worker)
   iff the drawn u satisfies u <= loss_rate, and the call returns len(data)
   in every case. *)
C22_LossDecision ==
    \A s \in Sockets : \A n \in 1..Len(outcalls[s]) :
        LET call == outcalls[s][n]
        IN  /\ call.returned = Len(call.data)
            /\ ~NotDropped(s, call.data) <=> call.u <= call.settings.packet_loss_rate

(* C26: a datagram that is not dropped and whose delay = base_latency +
   jitter sample + caller-supplied delay is below MIN_LATENCY is transmitted
   at once by the calling thread and nothing is enqueued; otherwise exactly
   one task with scheduled_time = now + delay is enqueued and the calling
   thread transmits nothing; the jitter sample lies in [0, jitter]. *)
C26_InlineOrScheduled ==
    \A s \in Sockets : \A n \in 1..Len(outcalls[s]) :
        LET call == outcalls[s][n]
            delay == call.settings.base_latency + call.sample + call.delay
        IN  /\ 0 <= call.sample /\ call.sample <= call.settings.jitter
            /\ NotDropped(s, call.data) =>
                 IF delay < MIN_LATENCY
                 THEN /\ \E i \in 1..Len(wire[s]) :
                            /\ OnWire(s, call.data) = {i}
                            /\ wire[s][i].by = "caller"
                            /\ wire[s][i].time = call.time
                      /\ InQueue(s, call.data) = {} /\ InHeap(s, call.data) = {}
                 ELSE /\ \E i \in 1..Len(queue[s]) :
                            /\ InQueue(s, call.data) = {i}
                            /\ queue[s][i].scheduled_time = call.time + delay
                            /\ queue[s][i].method = call.method
                      /\ OnWire(s, call.data) = {} /\ InHeap(s, call.data) = {}

\* a sendto at a time after 0 with a jitter sample and a delay argument, which
\* was enqueued
C26_Witness ==
    \E n \in 1..Len(outcalls["client"]) :
        LET call == outcalls["client"][n]
        IN  /\ call.method = "sendto" /\ call.time > 0
            /\ call.sample > 0 /\ call.delay > 0
            /\ InQueue("client", call.data) # {}

(* C23: delivery by the sender worker is monotonic in scheduled_time: of two
   tasks with scheduled_time(a) < scheduled_time(b), a is transmitted before
   b, whatever the order of submission and whichever are due when drained. *)
C23_MonotonicDelivery ==
    \A s \in Sockets : \A i, j \in 1..Len(wire[s]) :
        (/\ wire[s][i].by # "caller" /\ wire[s][j].by # "caller"
         /\ wire[s][i].scheduled_time < wire[s][j].scheduled_time) => i < j

(* C24: the sender worker never transmits early: every task it transmits,
   executed while draining the inbound queue or popped from the heap, has
   scheduled_time <= now at the moment of transmission. *)
C24_NeverEarly ==
    \A s \in Sockets : \A i \in 1..Len(wire[s]) :
        wire[s][i].by # "caller" => wire[s][i].scheduled_time <= wire[s][i].time

\* the worker has executed one task while draining and one popped from the heap
C24_Witness ==
    /\ \E i \in 1..Len(wire["client"]) : wire["client"][i].by = "drain"
    /\ \E i \in 1..Len(wire["client"]) : wire["client"][i].by = "heap"

(* C25: with loss disabled and the worker running, the scheduler neither
   loses nor duplicates: every datagram passed to sendto is handed to the
   underlying socket exactly once, inline or by the worker, or is still
   waiting for its time in the worker's queue or heap. *)
C25_ExactlyOnce ==
    \A s \in Sockets : \A n \in 1..Len(outcalls[s]) :
        LET call == outcalls[s][n]
        IN  (call.method = "sendto" /\ call.settings.packet_loss_rate = 0) =>
                Cardinality(OnWire(s, call.data))
                + Cardinality(InQueue(s, call.data))
                + Cardinality(InHeap(s, call.data)) = 1

(* C27: the worker sets the empty flag at the end of a loop iteration exactly
   when the heap is empty and no new items were taken from the inbound queue
   during that iteration's drain, and a drain that takes at least one item
   clears the flag. *)
C27_EmptyFlag ==
    \A s \in Sockets :
        /\ iterations[s].done =>
              (iterations[s].flag_set <=>
                  (iterations[s].heap_empty /\ iterations[s].taken = 0))
        /\ (wpc[s] = "pop" /\ iterations[s].taken > 0) => ~empty_send_queue[s]

\* the transmissions of the worker among w
ByWorker(w) == SelectSeq(w, LAMBDA x : x.by # "caller")

\* in this step the worker of s takes nothing from its queue and transmits
\* nothing
WorkerIdle(s) ==
    /\ ByWorker(wire'[s]) = ByWorker(wire[s])
    /\ Len(queue'[s]) >= Len(queue[s])
    /\ Take(queue'[s], Len(queue[s])) = queue[s]

(* C28: once the stop flag has been set, the worker takes no further item
   from the inbound queue and transmits no further datagram; items still
   pending in the queue or heap are discarded. *)
C28_StopDiscards ==
    [][\A s \in Sockets : stop_event[s] => WorkerIdle(s)]_vars

(* C28, amended: once the worker has examined the stop flag and found it set
   (at the top of an iteration whose number is a multiple of 100), it takes
   no further item from the inbound queue and transmits no further datagram:
   it exits, and the items still in the queue or heap stay there for good. *)
C28_StopSeenDiscards ==
    [][\A s \in Sockets :
          worker'[s] = "exited" => WorkerIdle(s) /\ heap'[s] = heap[s]]_vars

\* the worker has exited with a task in its heap or queue that was never
\* transmitted
C28_Witness ==
    /\ worker["client"] = "exited"
    /\ heap["client"] # {} \/ queue["client"] # <<>>
    /\ wire["client"] = <<>>

(* C29: the stop flag is examined on every 100th loop iteration: once stop()
   has set it on a running worker, the worker exits its loop within at most
   100 further iterations, whatever the inbound queue and the heap hold; no
   iteration waits for anything. *)
C29_StopWithin100 ==
    \A s \in Sockets :
        /\ stop_event[s] =>
              stop_check_counter[s] - stopped_at[s]
                 <= (IF worker[s] = "alive" THEN 99 ELSE 100)
        /\ worker[s] = "alive" => ENABLED (WorkerDrain(s) \/ WorkerPop(s))

\* stop() came before the first iteration and found a task in the heap that
\* was not yet due: the worker went through all of 100 iterations and exited
C29_Witness ==
    /\ worker["client"] = "exited"
    /\ stop_check_counter["client"] - stopped_at["client"] = 100
    /\ \E task \in heap["client"] : ~Due(task, monotonic)

(* C30: when the get_real_world_sockets scope has been left, normally or by
   an exception, and for either value of start_scheduler, no socket's sender
   worker is alive. *)
C30_ScopeReleases ==
    scope.phase \in {"left", "raised"} => \A s \in Sockets : worker[s] # "alive"

----------------------------------------------------------------------------
(* SafeProcess *)

\* the positions of the calls op in the parent's history
CallsOf(op) == {i \in 1..Len(p_log) : p_log[i].op = op}

\* the target ran to its end: the child ended and nobody killed it
TargetEnded == p_state = "exited" /\ CallsOf("kill") = {}

\* what the parent reads after join() once the target has ended
ExpectedResult == IF p_target.kind = "raises" THEN None ELSE p_target.value
ExpectedException ==
    IF p_target.kind = "raises"
    THEN Pair([type |-> p_target.value.type, message |-> p_target.value.message,
               traceback |-> "None"],
              FormatExc(p_target.value))
    ELSE None

\* C31: after start() and join() the process is not alive, and if the target
\* returned v the parent reads result = v and exception = None, if it raised
\* e the parent reads exception = (e, traceback text) and result = None.
C31_OutcomeConveyed ==
    \A j \in CallsOf("join") :
        /\ p_state = "exited"
        /\ TargetEnded =>
              \A i \in (j + 1)..Len(p_log) :
                  /\ p_log[i].op = "result" => p_log[i].returned = ExpectedResult
                  /\ p_log[i].op = "exception" =>
                        p_log[i].returned = ExpectedException

C31_Witness ==
    /\ TargetEnded
    /\ p_target.kind = "returns"
    /\ \E j \in CallsOf("join") : \E i \in (j + 1)..Len(p_log) :
          \E k \in (j + 1)..Len(p_log) :
              /\ p_log[i].op = "result" /\ p_log[i].returned = IntValue(42)
              /\ p_log[k].op = "exception" /\ p_log[k].returned = None

\* C32: stop() on a class without a stop event raises NotImplementedError and
\* changes nothing of the process; on a class with a stop event whose target
\* polls it, stop() followed by join() ends with the process not alive, and
\* once the event is set the polling child can end, so that join() returns.
C32_StopContract ==
    /\ [][(p_log' # p_log /\ Last(p_log').op = "stop" /\ ~p_use_stop_event)
             => /\ Last(p_log').returned.type = "NotImplementedError"
                /\ p_state' = p_state
                /\ p_stop_event' = p_stop_event]_vars
    /\ [](p_use_stop_event /\ p_target.kind = "polls"
             => /\ \A i \in CallsOf("stop") : \A j \in CallsOf("join") :
                       i < j => p_state = "exited"
                /\ (p_stop_event /\ p_state = "alive") => ENABLED Run)

C32_Witness ==
    /\ p_use_stop_event
    /\ p_target.kind = "polls"
    /\ p_state = "exited"
    /\ \E i \in CallsOf("stop") : \E j \in CallsOf("join") :
          i < j /\ p_log[i].returned = None

----------------------------------------------------------------------------
(* CircularBuffer *)

\* the pushed and not yet popped items after the first k calls, for a FIFO
\* of capacity n that drops its oldest item when a push finds it full
RECURSIVE Fifo(_, _)
Fifo(k, n) ==
    IF k = 0 THEN <<>>
    ELSE LET before == Fifo(k - 1, n)
         IN  IF cb_log[k].op = "push"
             THEN LET all == Append(before, cb_log[k].item)
                  IN  IF Len(all) > n THEN Tail(all) ELSE all
             ELSE IF before = <<>> THEN <<>> ELSE Tail(before)

\* C34: after any sequence of push and pop on a buffer of size n >= 1,
\* 0 <= count <= n and head = (tail + count) mod n, iterating yields the last
\* min(n, .) pushed and not yet popped items in push order, pop returns and
\* removes the oldest of them, and pop on an empty buffer returns None and
\* changes nothing.
C34_BoundedFifo ==
    /\ [](cb # NoBuffer =>
            /\ 0 <= cb.count /\ cb.count <= cb.size
            /\ cb.head = (cb.tail + cb.count) % cb.size
            /\ List(cb) = Fifo(Len(cb_log), cb.size)
            /\ \A k \in 1..Len(cb_log) :
                  cb_log[k].op = "pop" =>
                     cb_log[k].item =
                        IF Fifo(k - 1, cb.size) = <<>> THEN None
                        ELSE Head(Fifo(k - 1, cb.size)))
    /\ [][(cb_log' # cb_log /\ Last(cb_log').op = "pop" /\ cb.count = 0)
             => (cb' = cb /\ Last(cb_log').item = None)]_vars

\* a full buffer was pushed to and the oldest remaining item popped
C34_Witness ==
    /\ cb.size = 2
    /\ Len(cb_log) = 4
    /\ cb_log[1] = [op |-> "push", item |-> IntValue(1)]
    /\ cb_log[2] = [op |-> "push", item |-> IntValue(2)]
    /\ cb_log[3] = [op |-> "push", item |-> IntValue(1)]
    /\ cb_log[4] = [op |-> "pop", item |-> IntValue(2)]
    /\ List(cb) = <<IntValue(1)>>

\* C40: x in buffer is true iff x is in list(buffer); an item that was popped
\* and not pushed again is not reported as contained.
C40_MembershipAgrees ==
    cb # NoBuffer =>
        \A x \in Items : Contains(cb, x) <=> (\E i \in 1..cb.count : List(cb)[i] = x)

----------------------------------------------------------------------------
(* The packet codec *)

\* the trailer occurs nowhere in the bits
TrailerAbsent(bits) == FindAll(bits, BytesBits(Trailer), 0) = {}

\* the bits Packet.unpack is called with, when strip_trailer returned
Stripped == StripTrailer(pk.bits).payload

\* C33: from_bits(create(type, payload).pack()) has the type and the payload
\* bytes that were given, for every payload, the empty one too, and every
\* type; unpack raises ChecksumMismatchError when the checksum of the header
\* differs from the payload's, and from_bits raises
\* SerializationCheckMismatchError when the trailer is absent.
C33_RoundTrip ==
    pk.phase = "decoded" =>
        /\ pk.edits = <<>> =>
              /\ pk.result.raises = ""
              /\ pk.result.header.packet_type = pk.packet_type
              /\ ToBytes(pk.result.payload) = pk.payload
        /\ TrailerAbsent(pk.bits) =>
              pk.result.raises = "SerializationCheckMismatchError"
        /\ (/\ StripTrailer(pk.bits).raises = ""
            /\ Take(Stripped, 32) # CRC32Generate(ToBytes(Drop(Stripped, HeaderBitLen))))
              => pk.result.raises = "ChecksumMismatchError"

----------------------------------------------------------------------------
(* The empty flag as producers see it *)

\* every datagram that the first n calls on s handed to the socket or to the
\* worker has been transmitted
TransmittedBefore(s, n) ==
    \A i \in 1..n : NotDropped(s, outcalls[s][i].data) =>
                        OnWire(s, outcalls[s][i].data) # {}

\* C39: in every reachable state in which the worker's empty flag is set, no
\* submitted task is still untransmitted: the inbound queue and the heap are
\* both empty; and when ensure_empty_send_queue returns, after it has seen
\* the flag set on three consecutive polls, every datagram submitted before
\* the call has been transmitted.
C39_EmptyFlagSound ==
    \A s \in Sockets :
        /\ empty_send_queue[s] => (queue[s] = <<>> /\ heap[s] = {})
        /\ ensure[s].pc = "returned" => TransmittedBefore(s, ensure[s].before)

----------------------------------------------------------------------------
(* The default configuration *)

\* every datagram that e has emitted has been returned by the peer's socket
AllRead(e) ==
    \A k \in 1..Len(sends[e]) : \A i \in 1..Len(sends[e][k].datagrams) :
        sends[e][k].datagrams[i] \notin Unread(Peer(e))

\* the callback calls of e for sequence seq
CallsOfSequence(e, seq) == { i \in 1..Len(calls[e]) : calls[e][i].sequence = seq }

\* C35: with the default configuration and a channel that neither loses nor
\* duplicates, every payload with 0 < len <= max_fragments * fragment_size
\* passed to send_packet reaches the callback of the other side exactly once
\* and byte for byte, as a single datagram or as fragments.
C35_EndToEnd ==
    (running["B"] /\ AllRead("A")) =>
        \A k \in 1..Len(sends["A"]) :
            LET send == sends["A"][k]
            IN  (0 < Len(send.data)
                 /\ Len(send.data) <= cfg.max_fragments * cfg.fragment_size)
                  => \E i \in 1..Len(calls["B"]) :
                        /\ CallsOfSequence("B", send.sequence) = {i}
                        /\ calls["B"][i].data = send.data

\* C38: every datagram the endpoint emits (8-byte header, optional 2-byte
\* fragment sub-header, payload or fragment bytes) is no longer than
\* max_packet_size, the buffer size the receive loop passes to recvfrom, so
\* that no datagram is shortened on receipt.
C38_FitsReceiveBuffer ==
    \A e \in Endpoints : \A k \in 1..Len(sends[e]) :
        \A i \in 1..Len(sends[e][k].datagrams) :
            LET d == sends[e][k].datagrams[i]
            IN  /\ Len(d) <= cfg.max_packet_size
                /\ Recvfrom(d, cfg.max_packet_size) = d

\* C36: ack soundness.  Whenever endpoint A has taken an RTT sample for the
\* record of one of its sends, the callback of B has accepted the datagram of
\* that very send: B, which reads only the datagrams of the sends made here,
\* has called its callback for that sequence and the callback returned True.
\* (No two of these sends share a sequence number.)
C36_AckSound ==
    \A i \in 1..Len(samples["A"]) :
        LET s == samples["A"][i].sequence
        IN  (\E k \in 1..Len(sends["A"]) : sends["A"][k].sequence = s) =>
                \E j \in 1..Len(calls["B"]) :
                    calls["B"][j].sequence = s /\ calls["B"][j].ret

\* the sequences that the header of the datagram d acknowledges
AckedIn(d) ==
    { (UnpackH(Slice(d, 2, 4)) - i) % 65536 :
        i \in { b \in 0..31 : BitSet(UnpackI(Slice(d, 4, 8)), b) } }

\* the datagram of sequence s was handed to e's socket and no newer send of
\* e uses the same slot of the sent window
HandedOver(e, s) ==
    \E k \in 1..Len(sends[e]) :
        /\ sends[e][k].sequence = s
        /\ ~sends[e][k].raised
        /\ \A k2 \in (k + 1)..Len(sends[e]) :
              sends[e][k2].sequence % cfg.sent_packets_buffer_size
                  # s % cfg.sent_packets_buffer_size

\* this step is an iteration of e's receive loop that processes a datagram
\* whole (a header is there and nothing raises)
ProcessesAcks(e) ==
    /\ Len(delivered'[e]) = Len(delivered[e]) + 1
    /\ Len(Last(delivered'[e])) >= HEADER_SIZE
    /\ (loops'[e] = loops[e] \/ ~running[e])

\* C37: no ack is missed because of send/record ordering.  In every step in
\* which A's receive thread processes a datagram that acknowledges a sequence
\* s whose datagram A has handed to its socket (and that no newer send has
\* evicted), the step takes an RTT sample for s.
C37_NoAckMissed ==
    [][ ProcessesAcks("A") =>
          \A s \in AckedIn(Last(delivered'["A"])) :
              HandedOver("A", s) =>
                  \E i \in (Len(samples["A"]) + 1)..Len(samples'["A"]) :
                      samples'["A"][i].sequence = s ]_vars

====
